---------------------------- MODULE Spec2Model ----------------------------
(***************************************************************************)
(* A model of telegram/ext/dictpersistence.py (DictPersistence) and of     *)
(* telegram/ext/commandhandler.py (CommandHandler, PrefixHandler).         *)
(*                                                                         *)
(* Python values are tagged tuples, so that values of different Python     *)
(* types can be compared:                                                  *)
(*   <<"None">>             None                                           *)
(*   <<"bool", b>>          True / False                                   *)
(*   <<"int", n>>           an int                                         *)
(*   <<"float", s, w, f>>   the float  s * w.f  (s is 1 or -1, w a         *)
(*                          natural, f a digit string with no trailing     *)
(*                          zero after its first digit)                    *)
(*   <<"str", s>>           a str (s is a TLA+ string)                     *)
(*   <<"list", seq>>        a list                                         *)
(*   <<"tuple", seq>>       a tuple                                        *)
(*   <<"dict", items>>      a dict or defaultdict: the sequence of its     *)
(*                          <<key, value>> pairs in insertion order        *)
(* Texts (JSON payloads, commands, message texts) are TLA+ strings, read   *)
(* one character at a time with SubSeq.                                    *)
(*                                                                         *)
(* json is the standard library's module, the one dictpersistence.py       *)
(* imports when ujson is not installed.  BasePersistence, the base class,  *)
(* is not part of the sources modelled: the methods are modelled as        *)
(* DictPersistence defines them.                                           *)
(***************************************************************************)
EXTENDS Integers, Sequences, FiniteSets, TLC

VARIABLES
    phase,                \* "new" | "live" (constructed) | "failed" (__init__ raised)
    _user_data, _chat_data, _bot_data, _callback_data, _conversations,
    _user_data_json, _chat_data_json, _bot_data_json, _callback_data_json,
    _conversations_json,
    op,                   \* the last call made: <<name, argument, ...>>
    ret,                  \* what the last call returned or raised
    returned,             \* the objects of the store that the value returned
                          \* holds (the very objects, not copies): a set of
                          \* << field >> and << field, index >>
    nupd,                 \* number of update_* calls made so far
    lastupd,              \* the last update_* call: <<name, argument, ...>>
    readsince,            \* a *_json property was read since the last update_* call
    repeated,             \* the last update_* call repeated the one before it:
                          \* "no" | "direct" | "after_read" (a read in between)
    wrote,                \* the last update_* call went past its early return
    nchg,                 \* number of changes the dispatcher made in place
    frame,                \* the update_* call of the mutator thread, and the
                          \* statement it runs next ("idle" once it has returned):
                          \* << statement, name, argument, ... >>
    seen,                 \* what the reader thread has read: << name, value, the
                          \* mutator's frame then >> of the collection, then
                          \* << name, value, frame, cache field >> of its *_json
    hphase,               \* handler: "new" | "live" | "failed"
    hclass,               \* the handler's class: "none" | "CommandHandler" | "PrefixHandler"
    hop,                  \* the last handler call: <<name, argument, ...>>
    command,              \* CommandHandler.command
    filters,              \* CommandHandler.filters
    _prefix, _command,    \* PrefixHandler._prefix, PrefixHandler._command
    _commands,            \* PrefixHandler._commands
    context,              \* the attributes of the CallbackContext of the update
    nchk,                 \* number of check_update calls made so far
    hret                  \* what the last handler call returned or raised

store == << _user_data, _chat_data, _bot_data, _callback_data, _conversations,
            _user_data_json, _chat_data_json, _bot_data_json,
            _callback_data_json, _conversations_json >>
handler == << hphase, hclass, hop, command, filters, _prefix, _command, _commands,
             context, nchk, hret >>
history == << nupd, lastupd, readsince, repeated, wrote, nchg, frame, seen >>
vars == << phase, store, op, ret, returned, history, handler >>

----------------------------------------------------------------------------
(* Python values *)

PyNone == << "None" >>
PyBool(b) == << "bool", b >>
PyInt(n) == << "int", n >>
PyFloat(s, w, f) == << "float", s, w, f >>
PyStr(s) == << "str", s >>
PyList(q) == << "list", q >>
PyTuple(q) == << "tuple", q >>
PyDict(items) == << "dict", items >>
EmptyDict == PyDict(<< >>)

Tag(v) == v[1]
IsNone(v) == Tag(v) = "None"
IsStr(v) == Tag(v) = "str"
IsDict(v) == Tag(v) = "dict"
IsSeq(v) == Tag(v) \in {"list", "tuple"}

Raise(exc, msg) == << "raise", exc, msg >>
Raised(r) == Tag(r) = "raise"

\* the characters i..j of s that exist (SubSeq, clipped to the text)
Sub(s, i, j) ==
    LET a == IF i < 1 THEN 1 ELSE i
        b == IF j > Len(s) THEN Len(s) ELSE j
    IN IF a > b THEN "" ELSE SubSeq(s, a, b)
\* the character at i, "" outside the text
Ch(s, i) == Sub(s, i, i)

Digits == "0123456789"
IsDigit(c) == \E d \in 1..10 : Ch(Digits, d) = c
DigitVal(c) == (CHOOSE d \in 1..10 : Ch(Digits, d) = c) - 1

RECURSIVE NatToStr(_)
NatToStr(n) ==
    IF n < 10 THEN Ch(Digits, n + 1)
    ELSE NatToStr(n \div 10) \o Ch(Digits, (n % 10) + 1)

\* str(n) of an int
IntToStr(n) == IF n < 0 THEN "-" \o NatToStr(-n) ELSE NatToStr(n)

\* bool(v): Python truthiness
Truthy(v) ==
    CASE Tag(v) = "None" -> FALSE
      [] Tag(v) = "bool" -> v[2]
      [] Tag(v) = "int" -> v[2] # 0
      [] Tag(v) = "float" -> ~(v[3] = 0 /\ v[4] = "0")
      [] Tag(v) = "str" -> v[2] # ""
      [] OTHER -> Len(v[2]) > 0

IsNumLike(v) == Tag(v) \in {"bool", "int", "float"}
IsIntegral(v) == Tag(v) \in {"bool", "int"} \/ (Tag(v) = "float" /\ v[4] = "0")
IntegralVal(v) ==
    CASE Tag(v) = "bool" -> (IF v[2] THEN 1 ELSE 0)
      [] Tag(v) = "int" -> v[2]
      [] OTHER -> v[2] * v[3]

NumEq(a, b) ==
    IF IsIntegral(a) /\ IsIntegral(b) THEN IntegralVal(a) = IntegralVal(b)
    ELSE /\ Tag(a) = "float" /\ Tag(b) = "float"
         /\ a[2] = b[2] /\ a[3] = b[3] /\ a[4] = b[4]

\* a == b in Python: numbers by value (True == 1 == 1.0), dicts without
\* regard to order, a list never equal to a tuple
RECURSIVE PyEq(_, _)
PyEq(a, b) ==
    IF IsNumLike(a) \/ IsNumLike(b)
    THEN IsNumLike(a) /\ IsNumLike(b) /\ NumEq(a, b)
    ELSE IF Tag(a) # Tag(b) THEN FALSE
    ELSE CASE Tag(a) = "None" -> TRUE
           [] Tag(a) = "str" -> a[2] = b[2]
           [] Tag(a) \in {"list", "tuple"} ->
                /\ Len(a[2]) = Len(b[2])
                /\ \A i \in 1..Len(a[2]) : PyEq(a[2][i], b[2][i])
           [] Tag(a) = "dict" ->
                /\ Len(a[2]) = Len(b[2])
                /\ \A i \in 1..Len(a[2]) : \E j \in 1..Len(b[2]) :
                      /\ PyEq(a[2][i][1], b[2][j][1])
                      /\ PyEq(a[2][i][2], b[2][j][2])

\* dict operations
DictHas(d, k) == \E i \in 1..Len(d[2]) : PyEq(d[2][i][1], k)
DictIndex(d, k) == CHOOSE i \in 1..Len(d[2]) : PyEq(d[2][i][1], k)
\* d.get(k) / d.get(k, default)
DictGet(d, k, default) == IF DictHas(d, k) THEN d[2][DictIndex(d, k)][2] ELSE default
\* d[k] = v: a key already present keeps its place (and its key object)
DictSet(d, k, v) ==
    IF DictHas(d, k)
    THEN PyDict([d[2] EXCEPT ![DictIndex(d, k)] = << d[2][DictIndex(d, k)][1], v >>])
    ELSE PyDict(Append(d[2], << k, v >>))
\* d.setdefault(k, default), as the dict it leaves
DictSetDefault(d, k, default) == IF DictHas(d, k) THEN d ELSE DictSet(d, k, default)
DictKeys(d) == [i \in 1..Len(d[2]) |-> d[2][i][1]]
\* del d[k], for a key that d has
DictDel(d, k) ==
    PyDict([j \in 1..(Len(d[2]) - 1) |->
               IF j < DictIndex(d, k) THEN d[2][j] ELSE d[2][j + 1]])


----------------------------------------------------------------------------
(* json.dumps *)

\* a str as the body of a JSON string literal (ensure_ascii escapes)
RECURSIVE EscapeStr(_)
EscapeStr(s) ==
    IF s = "" THEN ""
    ELSE LET c == Ch(s, 1)
             e == CASE c = "\"" -> "\\\""
                    [] c = "\\" -> "\\\\"
                    [] c = "\n" -> "\\n"
                    [] c = "\t" -> "\\t"
                    [] OTHER -> c
         IN e \o EscapeStr(Sub(s, 2, Len(s)))

FloatRepr(v) == (IF v[2] < 0 THEN "-" ELSE "") \o NatToStr(v[3]) \o "." \o v[4]

\* the keys json.dumps accepts: str, int, float, bool or None
IsJsonKey(k) == Tag(k) \in {"str", "int", "float", "bool", "None"}
KeyToStr(k) ==
    CASE Tag(k) = "str" -> k[2]
      [] Tag(k) = "int" -> IntToStr(k[2])
      [] Tag(k) = "float" -> FloatRepr(k)
      [] Tag(k) = "bool" -> (IF k[2] THEN "true" ELSE "false")
      [] OTHER -> "null"

\* json.dumps(v) succeeds (no TypeError "keys must be str, int, ...")
RECURSIVE Dumpable(_)
Dumpable(v) ==
    CASE Tag(v) \in {"list", "tuple"} -> \A i \in 1..Len(v[2]) : Dumpable(v[2][i])
      [] Tag(v) = "dict" ->
            \A i \in 1..Len(v[2]) : IsJsonKey(v[2][i][1]) /\ Dumpable(v[2][i][2])
      [] OTHER -> TRUE

RECURSIVE Dumps(_), DumpElems(_, _), DumpItems(_, _)
\* json.dumps(v), with the default separators ", " and ": "
Dumps(v) ==
    CASE Tag(v) = "None" -> "null"
      [] Tag(v) = "bool" -> (IF v[2] THEN "true" ELSE "false")
      [] Tag(v) = "int" -> IntToStr(v[2])
      [] Tag(v) = "float" -> FloatRepr(v)
      [] Tag(v) = "str" -> "\"" \o EscapeStr(v[2]) \o "\""
      [] Tag(v) \in {"list", "tuple"} -> "[" \o DumpElems(v[2], 1) \o "]"
      [] Tag(v) = "dict" -> "{" \o DumpItems(v[2], 1) \o "}"
DumpElems(q, i) ==
    IF i > Len(q) THEN ""
    ELSE Dumps(q[i]) \o (IF i < Len(q) THEN ", " ELSE "") \o DumpElems(q, i + 1)
DumpItems(q, i) ==
    IF i > Len(q) THEN ""
    ELSE "\"" \o EscapeStr(KeyToStr(q[i][1])) \o "\": " \o Dumps(q[i][2])
         \o (IF i < Len(q) THEN ", " ELSE "") \o DumpItems(q, i + 1)

----------------------------------------------------------------------------
(* json.loads: a parser of JSON text.  A parse result is [ok, v, i]:       *)
(* whether a value was read, the value, and the position after it.         *)
(* Exponents, \u escapes and NaN/Infinity are not part of the texts the    *)
(* model draws and are rejected here.                                      *)

NoParse == [ok |-> FALSE, v |-> PyNone, i |-> 0]
Parsed(v, i) == [ok |-> TRUE, v |-> v, i |-> i]

IsWs(c) == c \in {" ", "\n", "\t"}
RECURSIVE SkipWs(_, _)
SkipWs(s, i) == IF i <= Len(s) /\ IsWs(Ch(s, i)) THEN SkipWs(s, i + 1) ELSE i

\* the character an escape stands for, "" for an escape the model rejects
Unescaped(e) ==
    CASE e = "\"" -> "\""
      [] e = "\\" -> "\\"
      [] e = "n" -> "\n"
      [] e = "t" -> "\t"
      [] OTHER -> ""

\* the body of a string literal from position i on, up to its closing quote
RECURSIVE ScanStr(_, _, _)
ScanStr(s, i, acc) ==
    IF i > Len(s) THEN NoParse
    ELSE IF Ch(s, i) = "\"" THEN Parsed(PyStr(acc), i + 1)
    ELSE IF Ch(s, i) = "\\"
         THEN (IF Unescaped(Ch(s, i + 1)) = "" THEN NoParse
               ELSE ScanStr(s, i + 2, acc \o Unescaped(Ch(s, i + 1))))
    ELSE IF Ch(s, i) \in {"\n", "\t"} THEN NoParse   \* control characters (strict)
    ELSE ScanStr(s, i + 1, acc \o Ch(s, i))

RECURSIVE DigitsEnd(_, _)
\* the position after the run of digits starting at i
DigitsEnd(s, i) == IF i <= Len(s) /\ IsDigit(Ch(s, i)) THEN DigitsEnd(s, i + 1) ELSE i

RECURSIVE StrToNat(_)
StrToNat(s) ==
    IF s = "" THEN 0
    ELSE StrToNat(Sub(s, 1, Len(s) - 1)) * 10 + DigitVal(Ch(s, Len(s)))

RECURSIVE StripZeros(_)
\* a fraction's digits without trailing zeros, at least one digit kept
StripZeros(f) ==
    IF Len(f) > 1 /\ Ch(f, Len(f)) = "0" THEN StripZeros(Sub(f, 1, Len(f) - 1)) ELSE f

\* a number: -? (0 | [1-9][0-9]*) (. [0-9]+)?
\* w is the integer part, read up to e; f is the end of the fraction
NumberFrac(s, sign, w, e, f) ==
    IF f > e + 1 THEN Parsed(PyFloat(sign, w, StripZeros(Sub(s, e + 1, f - 1))), f)
    ELSE Parsed(PyInt(sign * w), e)
NumberInt(s, sign, b, e) ==
    IF e = b THEN NoParse
    ELSE IF Ch(s, e) = "."
         THEN NumberFrac(s, sign, StrToNat(Sub(s, b, e - 1)), e, DigitsEnd(s, e + 1))
    ELSE Parsed(PyInt(sign * StrToNat(Sub(s, b, e - 1))), e)
NumberFrom(s, sign, b) ==
    NumberInt(s, sign, b, IF Ch(s, b) = "0" THEN b + 1 ELSE DigitsEnd(s, b))
ParseNumber(s, i) ==
    IF Ch(s, i) = "-" THEN NumberFrom(s, -1, i + 1) ELSE NumberFrom(s, 1, i)

RECURSIVE ParseValue(_, _), ParseElems(_, _, _), ParseMembers(_, _, _)

\* an array: after an element, "," and the next element, or "]"
ElemFollowed(s, acc, j) ==
    IF Ch(s, j) = "," THEN ParseElems(s, j + 1, acc)
    ELSE IF Ch(s, j) = "]" THEN Parsed(PyList(acc), j + 1)
    ELSE NoParse
ElemParsed(s, acc, r) ==
    IF ~r.ok THEN NoParse ELSE ElemFollowed(s, Append(acc, r.v), SkipWs(s, r.i))
ParseElems(s, i, acc) == ElemParsed(s, acc, ParseValue(s, i))
OpenArray(s, j) ==
    IF Ch(s, j) = "]" THEN Parsed(PyList(<< >>), j + 1) ELSE ParseElems(s, j, << >>)

\* an object: a repeated key keeps its first place and takes the last value
MemberFollowed(s, acc, j) ==
    IF Ch(s, j) = "," THEN ParseMembers(s, j + 1, acc)
    ELSE IF Ch(s, j) = "}" THEN Parsed(acc, j + 1)
    ELSE NoParse
MemberParsed(s, acc, key, r) ==
    IF ~r.ok THEN NoParse ELSE MemberFollowed(s, DictSet(acc, key, r.v), SkipWs(s, r.i))
KeyFollowed(s, acc, key, c) ==
    IF Ch(s, c) = ":" THEN MemberParsed(s, acc, key, ParseValue(s, c + 1)) ELSE NoParse
KeyParsed(s, acc, k) ==
    IF ~k.ok THEN NoParse ELSE KeyFollowed(s, acc, k.v, SkipWs(s, k.i))
MemberKey(s, acc, k0) ==
    IF Ch(s, k0) = "\"" THEN KeyParsed(s, acc, ScanStr(s, k0 + 1, "")) ELSE NoParse
ParseMembers(s, i, acc) == MemberKey(s, acc, SkipWs(s, i))
OpenObject(s, j) ==
    IF Ch(s, j) = "}" THEN Parsed(EmptyDict, j + 1) ELSE ParseMembers(s, j, EmptyDict)

\* the value at position i, which is not whitespace
ParseAt(s, i) ==
    IF i > Len(s) THEN NoParse
    ELSE IF Ch(s, i) = "\"" THEN ScanStr(s, i + 1, "")
    ELSE IF Ch(s, i) = "[" THEN OpenArray(s, SkipWs(s, i + 1))
    ELSE IF Ch(s, i) = "{" THEN OpenObject(s, SkipWs(s, i + 1))
    ELSE IF Sub(s, i, i + 3) = "null" THEN Parsed(PyNone, i + 4)
    ELSE IF Sub(s, i, i + 3) = "true" THEN Parsed(PyBool(TRUE), i + 4)
    ELSE IF Sub(s, i, i + 4) = "false" THEN Parsed(PyBool(FALSE), i + 5)
    ELSE IF Ch(s, i) = "-" \/ IsDigit(Ch(s, i)) THEN ParseNumber(s, i)
    ELSE NoParse
ParseValue(s, i0) == ParseAt(s, SkipWs(s, i0))

\* one value and nothing but whitespace after it
WholeText(s, r) == IF r.ok /\ SkipWs(s, r.i) = Len(s) + 1 THEN r ELSE NoParse
\* json.loads(s): ok is FALSE where json.loads raises JSONDecodeError (a ValueError)
Loads(s) == WholeText(s, ParseValue(s, 1))

----------------------------------------------------------------------------
(* Python built-ins the decoders call.  A result is [exc, msg, v]: exc is  *)
(* "" and v the value, or exc names the exception raised.                  *)

Ok(v) == [exc |-> "", msg |-> "", v |-> v]
Exc(e, m) == [exc |-> e, msg |-> m, v |-> PyNone]

\* the statements after one that may raise: they run on its value only
Then(r, Rest(_)) == IF r.exc # "" THEN r ELSE Rest(r.v)

\* except (caught) as exc: raise newExc(newMsg) from exc
Translate(r, caught, newExc, newMsg) ==
    IF r.exc \in caught THEN Exc(newExc, newMsg) ELSE r

LoadsResult(r) == IF r.ok THEN Ok(r.v) ELSE Exc("ValueError", "JSONDecodeError")
\* json.loads(s) as a result
JsonLoads(s) == LoadsResult(Loads(s))

\* t occurs in s
Contains(s, t) == \E i \in 1..(Len(s) - Len(t) + 1) : Sub(s, i, i + Len(t) - 1) = t

RECURSIVE Strip(_)
\* s.strip() for the whitespace of the model
Strip(s) ==
    IF s # "" /\ IsWs(Ch(s, 1)) THEN Strip(Sub(s, 2, Len(s)))
    ELSE IF s # "" /\ IsWs(Ch(s, Len(s))) THEN Strip(Sub(s, 1, Len(s) - 1))
    ELSE s

RECURSIVE DropUnderscores(_)
DropUnderscores(s) ==
    IF s = "" THEN ""
    ELSE (IF Ch(s, 1) = "_" THEN "" ELSE Ch(s, 1)) \o DropUnderscores(Sub(s, 2, Len(s)))

\* digits, with single underscores between digits
IsDigitBody(s) ==
    /\ s # ""
    /\ \A i \in 1..Len(s) :
          \/ IsDigit(Ch(s, i))
          \/ Ch(s, i) = "_" /\ IsDigit(Ch(s, i - 1)) /\ IsDigit(Ch(s, i + 1))

IntOfBody(sign, body) ==
    IF IsDigitBody(body) THEN Ok(PyInt(sign * StrToNat(DropUnderscores(body))))
    ELSE Exc("ValueError", "invalid literal for int() with base 10")
IntOfStripped(t) ==
    IntOfBody(IF Ch(t, 1) = "-" THEN -1 ELSE 1,
              IF Ch(t, 1) \in {"+", "-"} THEN Sub(t, 2, Len(t)) ELSE t)
\* int(s) of a str: base 10, surrounding whitespace and a sign allowed;
\* ValueError otherwise
IntOfStr(s) == IntOfStripped(Strip(s))

\* a decimal literal: digits from b to e, the fraction's end at f
FloatFrac(t, b, e, f) ==
    IF f = Len(t) + 1 /\ (e > b \/ f > e + 1)
    THEN Ok(PyFloat(IF Ch(t, 1) = "-" THEN -1 ELSE 1, StrToNat(Sub(t, b, e - 1)),
                    IF f > e + 1 THEN StripZeros(Sub(t, e + 1, f - 1)) ELSE "0"))
    ELSE Exc("ValueError", "could not convert string to float")
FloatPoint(t, b, e) == FloatFrac(t, b, e, IF Ch(t, e) = "." THEN DigitsEnd(t, e + 1) ELSE e)
FloatOfStripped(t, b) == FloatPoint(t, b, DigitsEnd(t, b))
FloatOfStr(t) == FloatOfStripped(t, IF Ch(t, 1) \in {"+", "-"} THEN 2 ELSE 1)

\* float(v): of a number, or of a str holding a decimal literal
FloatOf(v) ==
    CASE Tag(v) = "float" -> Ok(v)
      [] Tag(v) = "int" -> Ok(PyFloat(IF v[2] < 0 THEN -1 ELSE 1,
                                      IF v[2] < 0 THEN -v[2] ELSE v[2], "0"))
      [] Tag(v) = "bool" -> Ok(PyFloat(1, IF v[2] THEN 1 ELSE 0, "0"))
      [] Tag(v) = "str" -> FloatOfStr(Strip(v[2]))
      [] OTHER -> Exc("TypeError", "float() argument must be a string or a number")

\* iter(v): a list's or tuple's elements, a str's characters, a dict's keys
Iterable(v) == Tag(v) \in {"list", "tuple", "str", "dict"}
IterSeq(v) ==
    CASE Tag(v) = "str" -> [i \in 1..Len(v[2]) |-> PyStr(Ch(v[2], i))]
      [] Tag(v) = "dict" -> DictKeys(v)
      [] OTHER -> v[2]
IterOf(v) == IF Iterable(v) THEN Ok(IterSeq(v)) ELSE Exc("TypeError", "object is not iterable")

\* one, two, three = v
Unpack3(v) ==
    IF ~Iterable(v) THEN Exc("TypeError", "cannot unpack non-iterable object")
    ELSE IF Len(IterSeq(v)) # 3 THEN Exc("ValueError", "wrong number of values to unpack")
    ELSE Ok(IterSeq(v))

\* hash(v) is defined: not a list or a dict, nor a tuple holding one
RECURSIVE Hashable(_)
Hashable(v) ==
    CASE Tag(v) \in {"list", "dict"} -> FALSE
      [] Tag(v) = "tuple" -> \A i \in 1..Len(v[2]) : Hashable(v[2][i])
      [] OTHER -> TRUE

\* tuple(v), as a key of a dict
TupleKey(q) ==
    IF Hashable(PyTuple(q)) THEN Ok(PyTuple(q)) ELSE Exc("TypeError", "unhashable type")
TupleOf(v) == Then(IterOf(v), TupleKey)

\* v.items(): the dict itself, AttributeError for anything but a dict
ItemsOf(v) ==
    IF IsDict(v) THEN Ok(v) ELSE Exc("AttributeError", "object has no attribute 'items'")

\* v[i] for a 0-based index
Subscript(v, i) ==
    CASE Tag(v) \in {"list", "tuple"} ->
            (IF i < Len(v[2]) THEN Ok(v[2][i + 1])
             ELSE Exc("IndexError", "index out of range"))
      [] Tag(v) = "str" ->
            (IF i < Len(v[2]) THEN Ok(PyStr(Ch(v[2], i + 1)))
             ELSE Exc("IndexError", "string index out of range"))
      [] Tag(v) = "dict" ->
            (IF DictHas(v, PyInt(i)) THEN Ok(DictGet(v, PyInt(i), PyNone))
             ELSE Exc("KeyError", IntToStr(i)))
      [] OTHER -> Exc("TypeError", "object is not subscriptable")

\* json.dumps(v), or the TypeError it raises
DumpsResult(v) ==
    IF Dumpable(v) THEN Ok(PyStr(Dumps(v)))
    ELSE Exc("TypeError", "keys must be str, int, float, bool or None")

----------------------------------------------------------------------------
(* DictPersistence: the static helpers *)

\* Defect: the inner keys are left as the strings JSON gives
KeptKey(k, key) == key

\* try: key = int(key) / except ValueError: pass
CoercedKey(k, key) == IF k.exc = "" THEN k.v ELSE key

RECURSIVE DecodeEntity(_, _, _)
\* the inner loop of _decode_user_chat_data_from_json: tmp[user][key] = value
DecodeEntity(items, i, acc) ==
    IF i > Len(items) THEN acc
    ELSE DecodeEntity(items, i + 1,
                      DictSet(acc, CoercedKey(IntOfStr(items[i][1][2]), items[i][1]),
                              items[i][2]))

RECURSIVE DecodeUsers(_, _, _)
\* the outer loop of _decode_user_chat_data_from_json
DecodeUsers(items, i, tmp) ==
    IF i > Len(items) THEN Ok(tmp)
    ELSE Then(IntOfStr(items[i][1][2]), LAMBDA user :
         Then(ItemsOf(items[i][2]), LAMBDA user_data :
         DecodeUsers(items, i + 1,
                     DictSet(tmp, user, DecodeEntity(user_data[2], 1, EmptyDict)))))

_decode_user_chat_data_from_json(data) ==
    Then(JsonLoads(data), LAMBDA decoded_data :
    Then(ItemsOf(decoded_data), LAMBDA d : DecodeUsers(d[2], 1, EmptyDict)))

\* Defect: the key text is stored as it is, not decoded to a tuple
ConversationKeyText(key) == Ok(PyStr(key))

\* tuple(json.loads(key)), as the key it is stored under
ConversationKey(key) ==
    Then(JsonLoads(key), LAMBDA k : Then(IterOf(k), TupleKey))

RECURSIVE DecodeStates(_, _, _)
\* the inner loop of _decode_conversations_from_json:
\* conversations[handler][tuple(json.loads(key))] = state
DecodeStates(items, i, acc) ==
    IF i > Len(items) THEN Ok(acc)
    ELSE Then(ConversationKey(items[i][1][2]), LAMBDA t :
         DecodeStates(items, i + 1, DictSet(acc, t, items[i][2])))

RECURSIVE DecodeHandlers(_, _, _)
\* the outer loop of _decode_conversations_from_json
DecodeHandlers(items, i, conversations) ==
    IF i > Len(items) THEN Ok(conversations)
    ELSE Then(ItemsOf(items[i][2]), LAMBDA states :
         Then(DecodeStates(states[2], 1, EmptyDict), LAMBDA inner :
         DecodeHandlers(items, i + 1, DictSet(conversations, items[i][1], inner))))

_decode_conversations_from_json(json_string) ==
    Then(JsonLoads(json_string), LAMBDA tmp :
    Then(ItemsOf(tmp), LAMBDA d : DecodeHandlers(d[2], 1, EmptyDict)))

RECURSIVE EncodeStates(_, _, _)
\* the inner loop of _encode_conversations_to_json:
\* tmp[handler][json.dumps(key)] = state
EncodeStates(items, i, acc) ==
    IF i > Len(items) THEN Ok(acc)
    ELSE Then(DumpsResult(items[i][1]), LAMBDA key :
         EncodeStates(items, i + 1, DictSet(acc, key, items[i][2])))

RECURSIVE EncodeHandlers(_, _, _)
\* the outer loop of _encode_conversations_to_json
EncodeHandlers(items, i, tmp) ==
    IF i > Len(items) THEN Ok(tmp)
    ELSE Then(ItemsOf(items[i][2]), LAMBDA states :
         Then(EncodeStates(states[2], 1, EmptyDict), LAMBDA inner :
         EncodeHandlers(items, i + 1, DictSet(tmp, items[i][1], inner))))

_encode_conversations_to_json(conversations) ==
    Then(ItemsOf(conversations), LAMBDA d :
    Then(EncodeHandlers(d[2], 1, EmptyDict), DumpsResult))

----------------------------------------------------------------------------
(* DictPersistence.__init__, one payload at a time.  Each gives the        *)
(* collection it decodes to, or the exception that leaves __init__.        *)

UserDataPayload(user_data_json) ==
    Translate(_decode_user_chat_data_from_json(user_data_json),
              {"ValueError", "AttributeError"},
              "TypeError", "Unable to deserialize user_data_json. Not valid JSON")

ChatDataPayload(chat_data_json) ==
    Translate(_decode_user_chat_data_from_json(chat_data_json),
              {"ValueError", "AttributeError"},
              "TypeError", "Unable to deserialize chat_data_json. Not valid JSON")

\* if not isinstance(self._bot_data, dict): raise TypeError
BotDataChecked(bot_data) ==
    IF IsDict(bot_data) THEN Ok(bot_data)
    ELSE Exc("TypeError", "bot_data_json must be serialized dict")

BotDataPayload(bot_data_json) ==
    Then(Translate(JsonLoads(bot_data_json), {"ValueError", "AttributeError"},
                   "TypeError", "Unable to deserialize bot_data_json. Not valid JSON"),
         BotDataChecked)

RECURSIVE CallbackEntries(_, _, _)
\* [(one, float(two), three) for one, two, three in data[0]]
CallbackEntries(q, i, acc) ==
    IF i > Len(q) THEN Ok(PyList(acc))
    ELSE Then(Unpack3(q[i]), LAMBDA parts :
         Then(FloatOf(parts[2]), LAMBDA two :
         CallbackEntries(q, i + 1, Append(acc, PyTuple(<< parts[1], two, parts[3] >>)))))

\* ([(one, float(two), three) for one, two, three in data[0]], data[1])
CallbackTuple(data) ==
    Then(Subscript(data, 0), LAMBDA first :
    Then(IterOf(first), LAMBDA q :
    Then(CallbackEntries(q, 1, << >>), LAMBDA entries :
    Then(Subscript(data, 1), LAMBDA second :
    Ok(PyTuple(<< entries, second >>))))))

\* the check after the assignment: every entry's third element a dict and
\* first a str, and the second element a dict
CallbackFormatOk(cd) ==
    /\ \A i \in 1..Len(cd[2][1][2]) :
          IsDict(cd[2][1][2][i][2][3]) /\ IsStr(cd[2][1][2][i][2][1])
    /\ IsDict(cd[2][2])

CallbackChecked(callback_data) ==
    IF CallbackFormatOk(callback_data) THEN Ok(callback_data)
    ELSE Exc("TypeError", "callback_data_json is not in the required format")

\* if data is None: None, else the tuple, checked
CallbackDecoded(data) ==
    IF IsNone(data) THEN Ok(PyNone)
    ELSE Then(Translate(CallbackTuple(data), {"ValueError", "IndexError"},
                        "TypeError", "callback_data_json is not in the required format"),
              CallbackChecked)

CallbackDataPayload(callback_data_json) ==
    Then(Translate(JsonLoads(callback_data_json), {"ValueError", "AttributeError"},
                   "TypeError",
                   "Unable to deserialize callback_data_json. Not valid JSON"),
         CallbackDecoded)

ConversationsPayload(conversations_json) ==
    Translate(_decode_conversations_from_json(conversations_json),
              {"ValueError", "AttributeError"},
              "TypeError", "Unable to deserialize conversations_json. Not valid JSON")

\* if payload: decode it and keep the text as the cache; else leave both None
Field(text, r) == IF text = "" THEN Ok(PyNone) ELSE r
Cache(text) == IF text = "" THEN PyNone ELSE PyStr(text)

\* the constructed fields, or the first exception in the order the code
\* takes the payloads: user, chat, bot, callback, conversations
Assembled(u, c, b, k, v, caches) ==
    IF u.exc # "" THEN [exc |-> u.exc, msg |-> u.msg, fields |-> << >>]
    ELSE IF c.exc # "" THEN [exc |-> c.exc, msg |-> c.msg, fields |-> << >>]
    ELSE IF b.exc # "" THEN [exc |-> b.exc, msg |-> b.msg, fields |-> << >>]
    ELSE IF k.exc # "" THEN [exc |-> k.exc, msg |-> k.msg, fields |-> << >>]
    ELSE IF v.exc # "" THEN [exc |-> v.exc, msg |-> v.msg, fields |-> << >>]
    ELSE [exc |-> "", msg |-> "", fields |-> << u.v, c.v, b.v, k.v, v.v >> \o caches]

__init__(user_data_json, chat_data_json, bot_data_json, conversations_json, callback_data_json) ==
    Assembled(Field(user_data_json, UserDataPayload(user_data_json)),
              Field(chat_data_json, ChatDataPayload(chat_data_json)),
              Field(bot_data_json, BotDataPayload(bot_data_json)),
              Field(callback_data_json, CallbackDataPayload(callback_data_json)),
              Field(conversations_json, ConversationsPayload(conversations_json)),
              << Cache(user_data_json), Cache(chat_data_json), Cache(bot_data_json),
                 Cache(callback_data_json), Cache(conversations_json) >>)

----------------------------------------------------------------------------
(* The inputs the model draws *)

\* the number of update_* calls made on one store
MaxUpdates == 2

\* (user, chat, bot, conversations, callback) payloads a store is built from
Snapshots ==
    { << "", "", "", "", "" >>,
      << "{\"1\": {\"a\": 1}}", "{\"1\": {}}", "{\"a\": 1}",
         "{\"h\": {\"[1, 2]\": \"S\"}}", "[[[\"a\", 1, {}]], {}]" >>,
      << "", "", "{}", "{}", "null" >>,
      << "{\"2\": {\"7\": 1}}", "", "", "{\"g\": {\"[]\": null, \"[-3]\": 7}}", "" >> }

\* user_data_json / chat_data_json texts: well-formed ones, then malformed ones
EntityPayloads ==
    { "{\"1\": {\"a\": 1}}",
      "{\"1\": {\"a\": 1, \"2\": 3, \" 4 \": 5, \"1_0\": 6, \"-7\": 8, \"_1\": 9}}",
      "{\"1\": {\"a\": 1}, \"01\": {\"b\": 1}}",
      "{\"1\": {\"1\": 1, \"01\": 2}}",
      "{}",
      "{\"+3\": {\"a\": [1, {\"2\": 2.5}]}}",
      "{\"-0\": {}}",
      " {\"1\" : {\"a\":1} } ",
      "{\"1\": {\"a\": 1}, \"2\": {}}",
      "[]",
      "{\"a\": {}}",
      "{\"1\": 5}",
      "{\"1\": ",
      "null",
      "5",
      "\"x\"",
      "{\"1.5\": {}}",
      "{\"\": {}}",
      "{\"1\": []}",
      "{\"1\": null}",
      "{\"1\": {\"a\": 1}} x",
      "true",
      "{\"1__0\": {}}",
      "{\"1\": \"ab\"}" }

\* bot_data_json texts
BotPayloads ==
    { "{}",
      "{\"a\": 1}",
      "{\"a\": {\"b\": [1, 2]}}",
      "[]",
      "0",
      "null",
      "\"a\"",
      "{\"a\": ",
      "1.5",
      "false",
      "-1",
      "{a: 1}",
      "{\"a\": 01}" }

\* conversations_json texts
ConversationsPayloads ==
    { "{\"h\": {\"[1, 2]\": \"S\"}}",
      "{}",
      "{\"g\": {}}",
      "{\"h\": {\"[1, 2]\": null, \"[3]\": 4}, \"g\": {\"[]\": [1]}}",
      "{\"h\": {\"[1,2]\": 1, \"[1, 2]\": 2}}",
      "{\"h\": {\"[1.0]\": 1, \"[1]\": 2}}",
      "{\"h\": {\"1\": \"S\"}}",
      "{\"h\": {\"{}\": \"S\"}}",
      "{\"h\": {\"\\\"ab\\\"\": \"S\"}}",
      "{\"h\": {\"[[1]]\": \"S\"}}",
      "{\"h\": {\"x\": \"S\"}}",
      "{\"h\": 1}",
      "[]",
      "null",
      "{\"h\": {\"null\": 1}}",
      "{\"h\": {\"true\": 1}}",
      "{\"h\": {\"\": 1}}",
      "{\"h\": {\"[1, \\\"a\\\"]\": 1}}",
      "{\"h\": {\"{\\\"a\\\": 1}\": 1}}",
      "{\"h\": {\"[{}]\": 1}}",
      "{\"h\": []}",
      "{\"h\": null}",
      "{\"h\": {\"[1, 2]\": \"S\"}",
      "7",
      "\"h\"",
      "{\"h\": {\"\\\"\\\"\": 1}}",
      "{\"h\": {\"1.5\": 1}}" }

\* callback_data_json texts
CallbackPayloads ==
    { "null",
      "[[[\"a\", 1, {}]], {}]",
      "[[[\"a\", \"1.5\", {}]], {\"k\": 1}]",
      "{}",
      "5",
      "[]",
      "[[]]",
      "[[], {}, 1]",
      "[{}, {}]",
      "[\"\", {}]",
      "\"ab\"",
      "[[[\"a\", 1]], {}]",
      "[[[1, 1, {}]], {}]",
      "[[[\"a\", \"x\", {}]], {}]",
      "[[[\"a\", null, {}]], {}]",
      "[[[\"a\", true, {}]], {}]",
      "[[[\"a\", 1, 2]], {}]",
      "[[], 3]",
      "[[\"a1c\"], {}]",
      "[[5], {}]",
      "[[], {}]",
      "{\"a\": 1}",
      "0",
      "false",
      "true",
      "\"\"",
      "1.5",
      "[[[\"a\", 1.5, {}], [\"b\", 2, {\"x\": 1}]], {\"k\": []}]",
      "[[[\"a\", 1, {}, 4]], {}]",
      "[[[\"a\", [], {}]], {}]",
      "[[[\"a\", {}, {}]], {}]",
      "[[[\"a\", \" 2 \", {}]], {}]",
      "[[[\"a\", \"2.\", {}]], {}]",
      "[[[\"a\", \".5\", {}]], {}]",
      "[[[\"a\", \"-1\", {}]], {}]",
      "[[[\"a\", \"\", {}]], {}]",
      "[[[\"a\", \".\", {}]], {}]",
      "[[{\"a\": 1, \"2\": 2, \"c\": 3}], {}]",
      "[5, {}]",
      "[null, {}]",
      "[[[null, 1, {}]], {}]",
      "[[null], {}]",
      "[[], []]",
      "[[], null]",
      "[[] {}]",
      "\"a\"",
      "[\"a\", {}]",
      "[\"abc\", {}]",
      "[[\"a2c\"], {}]",
      "[[[\"a\", 1, {}]]]",
      "[[[\"a\", -1.50, {}]], {}]",
      "[true, {}]" }

DataA == PyDict(<< << PyStr("a"), PyInt(1) >> >>)
UserIds == {1, 2}
ChatIds == {1}
Datas == {EmptyDict, DataA}
CallbackDatas ==
    { PyTuple(<< PyList(<< PyTuple(<< PyStr("a"), PyFloat(1, 1, "0"), EmptyDict >>) >>),
                 EmptyDict >>),
      PyTuple(<< PyList(<< >>), PyDict(<< << PyStr("k"), PyInt(1) >> >>) >>) }
Names == {"h", "g"}
Keys == { PyTuple(<< PyInt(1), PyInt(2) >>) }
States == { PyNone, PyStr("S") }

----------------------------------------------------------------------------
(* DictPersistence: the operations *)

Called(name, args, result) ==
    /\ op' = << name >> \o args
    /\ ret' = result

\* the object __init__ returns, or no object and its exception
Constructed(r) ==
    IF r.exc = ""
    THEN /\ phase' = "live"
         /\ _user_data' = r.fields[1]
         /\ _chat_data' = r.fields[2]
         /\ _bot_data' = r.fields[3]
         /\ _callback_data' = r.fields[4]
         /\ _conversations' = r.fields[5]
         /\ _user_data_json' = r.fields[6]
         /\ _chat_data_json' = r.fields[7]
         /\ _bot_data_json' = r.fields[8]
         /\ _callback_data_json' = r.fields[9]
         /\ _conversations_json' = r.fields[10]
         /\ ret' = PyNone
    ELSE /\ phase' = "failed"
         /\ UNCHANGED store
         /\ ret' = Raise(r.exc, r.msg)

Construct(u, c, b, v, k) ==
    /\ phase = "new"
    /\ Constructed(__init__(u, c, b, v, k))
    /\ op' = << "__init__", PyStr(u), PyStr(c), PyStr(b), PyStr(v), PyStr(k) >>
    /\ returned' = { }
    /\ UNCHANGED << history, handler >>

\* Defect: a *_json property that encodes the live collection on every read
ReadJsonEncoded(name, cache, result) ==
    /\ phase = "live"
    /\ Called(name, << >>,
              IF result.exc = "" THEN result.v ELSE Raise(result.exc, result.msg))
    /\ readsince' = TRUE
    /\ returned' = { }
    /\ UNCHANGED << phase, store, nupd, lastupd, repeated, wrote, nchg, frame, seen,
                    handler >>

\* a *_json property: the cache if it is truthy, else a fresh encoding,
\* which is returned and not kept
ReadJson(name, cache, result) ==
    /\ phase = "live"
    /\ Called(name, << >>,
              IF Truthy(cache) THEN cache
              ELSE IF result.exc = "" THEN result.v
              ELSE Raise(result.exc, result.msg))
    /\ readsince' = TRUE
    /\ returned' = { }
    /\ UNCHANGED << phase, store, nupd, lastupd, repeated, wrote, nchg, frame, seen,
                    handler >>

\* Defect: a read on a cache miss keeps the fresh encoding as the cache
bot_data_json_kept ==
    /\ phase = "live"
    /\ Called("bot_data_json", << >>,
              IF Truthy(_bot_data_json) THEN _bot_data_json ELSE DumpsResult(_bot_data).v)
    /\ _bot_data_json' = ret'
    /\ readsince' = TRUE
    /\ returned' = { }
    /\ UNCHANGED << phase, _user_data, _chat_data, _bot_data, _callback_data,
                    _conversations, _user_data_json, _chat_data_json,
                    _callback_data_json, _conversations_json,
                    nupd, lastupd, repeated, wrote, nchg, frame, seen, handler >>

user_data_json == ReadJson("user_data_json", _user_data_json, DumpsResult(_user_data))

\* Defect: a read of chat_data_json on a cache miss keeps the fresh encoding
chat_data_json_kept ==
    /\ phase = "live"
    /\ Called("chat_data_json", << >>,
              IF Truthy(_chat_data_json) THEN _chat_data_json
              ELSE DumpsResult(_chat_data).v)
    /\ _chat_data_json' = ret'
    /\ readsince' = TRUE
    /\ returned' = { }
    /\ UNCHANGED << phase, _user_data, _chat_data, _bot_data, _callback_data,
                    _conversations, _user_data_json, _bot_data_json,
                    _callback_data_json, _conversations_json,
                    nupd, lastupd, repeated, wrote, nchg, frame, seen, handler >>

chat_data_json == ReadJson("chat_data_json", _chat_data_json, DumpsResult(_chat_data))
bot_data_json == ReadJson("bot_data_json", _bot_data_json, DumpsResult(_bot_data))
callback_data_json ==
    ReadJson("callback_data_json", _callback_data_json, DumpsResult(_callback_data))
conversations_json ==
    ReadJson("conversations_json", _conversations_json,
             _encode_conversations_to_json(_conversations))

get_user_data ==
    /\ phase = "live"
    /\ _user_data' = IF IsNone(_user_data) THEN EmptyDict ELSE _user_data
    /\ Called("get_user_data", << >>, _user_data')
    /\ returned' = { << "_user_data" >> }
    /\ UNCHANGED << phase, _chat_data, _bot_data, _callback_data, _conversations,
                    _user_data_json, _chat_data_json, _bot_data_json,
                    _callback_data_json, _conversations_json, history, handler >>

get_chat_data ==
    /\ phase = "live"
    /\ _chat_data' = IF IsNone(_chat_data) THEN EmptyDict ELSE _chat_data
    /\ Called("get_chat_data", << >>, _chat_data')
    /\ returned' = { << "_chat_data" >> }
    /\ UNCHANGED << phase, _user_data, _bot_data, _callback_data, _conversations,
                    _user_data_json, _chat_data_json, _bot_data_json,
                    _callback_data_json, _conversations_json, history, handler >>

get_bot_data ==
    /\ phase = "live"
    /\ _bot_data' = IF IsNone(_bot_data) THEN EmptyDict ELSE _bot_data
    /\ Called("get_bot_data", << >>, _bot_data')
    /\ returned' = { << "_bot_data" >> }
    /\ UNCHANGED << phase, _user_data, _chat_data, _callback_data, _conversations,
                    _user_data_json, _chat_data_json, _bot_data_json,
                    _callback_data_json, _conversations_json, history, handler >>

\* Defect: the pair of the entries and the inner map itself
get_callback_data_live ==
    /\ phase = "live"
    /\ Called("get_callback_data", << >>,
              IF IsNone(_callback_data) THEN PyNone
              ELSE PyTuple(<< _callback_data[2][1], _callback_data[2][2] >>))
    /\ returned' = IF IsNone(_callback_data) THEN { }
                   ELSE { << "_callback_data", 0 >>, << "_callback_data", 1 >> }
    /\ UNCHANGED << phase, store, history, handler >>

\* None, or the pair of the entries and a copy of the inner map
get_callback_data ==
    /\ phase = "live"
    /\ Called("get_callback_data", << >>,
              IF IsNone(_callback_data) THEN PyNone
              ELSE PyTuple(<< _callback_data[2][1], _callback_data[2][2] >>))
    /\ returned' = IF IsNone(_callback_data) THEN { } ELSE { << "_callback_data", 0 >> }
    /\ UNCHANGED << phase, store, history, handler >>

\* Defect: the handler's sub-map itself, {} for a handler that has none
get_conversations_live(name) ==
    /\ phase = "live"
    /\ _conversations' = IF IsNone(_conversations) THEN EmptyDict ELSE _conversations
    /\ Called("get_conversations", << PyStr(name) >>,
              DictGet(_conversations', PyStr(name), EmptyDict))
    /\ returned' = IF DictHas(_conversations', PyStr(name))
                   THEN { << "_conversations", name >> } ELSE { }
    /\ UNCHANGED << phase, _user_data, _chat_data, _bot_data, _callback_data,
                    _user_data_json, _chat_data_json, _bot_data_json,
                    _callback_data_json, _conversations_json, history, handler >>

\* a copy of the handler's sub-map, {} for a handler that has none
get_conversations(name) ==
    /\ phase = "live"
    /\ _conversations' = IF IsNone(_conversations) THEN EmptyDict ELSE _conversations
    /\ Called("get_conversations", << PyStr(name) >>,
              DictGet(_conversations', PyStr(name), EmptyDict))
    /\ returned' = { }
    /\ UNCHANGED << phase, _user_data, _chat_data, _bot_data, _callback_data,
                    _user_data_json, _chat_data_json, _bot_data_json,
                    _callback_data_json, _conversations_json, history, handler >>

\* Defect: update_user_data / update_chat_data without the comparison
EntityWritten(entities, cache, id, data) ==
    << DictSet(IF IsNone(entities) THEN EmptyDict ELSE entities, PyInt(id), data),
       PyNone, TRUE >>

\* Defect: update_callback_data comparing by identity: the stored pair is a
\* new tuple, never the argument itself
CallbackDataByIdentity(callback_data, cache, data) ==
    << PyTuple(<< data[2][1], data[2][2] >>), PyNone, TRUE >>

\* Defect: update_conversation removing the key when the new state is None
ConversationEnded(conversations, cache, name, key, new_state) ==
    LET c0 == IF ~Truthy(conversations) THEN EmptyDict ELSE conversations
        c1 == DictSetDefault(c0, PyStr(name), EmptyDict)
        states == DictGet(c1, PyStr(name), EmptyDict)
    IN IF PyEq(DictGet(states, key, PyNone), new_state)
       THEN << c1, cache, FALSE >>
       ELSE << DictSet(c1, PyStr(name),
                       IF IsNone(new_state) THEN DictDel(states, key)
                       ELSE DictSet(states, key, new_state)), PyNone, TRUE >>

\* What an update_* call leaves in its collection and in its cache field, and
\* whether it went past its early return: << collection, cache, wrote >>.

\* update_conversation
ConversationUpdated(conversations, cache, name, key, new_state) ==
    LET c0 == IF ~Truthy(conversations) THEN EmptyDict ELSE conversations
        c1 == DictSetDefault(c0, PyStr(name), EmptyDict)
        states == DictGet(c1, PyStr(name), EmptyDict)
    IN IF PyEq(DictGet(states, key, PyNone), new_state)
       THEN << c1, cache, FALSE >>
       ELSE << DictSet(c1, PyStr(name), DictSet(states, key, new_state)), PyNone, TRUE >>

\* update_user_data and update_chat_data
EntityUpdated(entities, cache, id, data) ==
    LET e0 == IF IsNone(entities) THEN EmptyDict ELSE entities
    IN IF PyEq(DictGet(e0, PyInt(id), PyNone), data)
       THEN << e0, cache, FALSE >>
       ELSE << DictSet(e0, PyInt(id), data), PyNone, TRUE >>

\* Defect: update_bot_data keeping a stored map that has entries
BotDataKept(bot_data, cache, data) ==
    IF PyEq(bot_data, data) THEN << bot_data, cache, FALSE >>
    ELSE IF Truthy(bot_data) THEN << bot_data, PyNone, TRUE >>
    ELSE << data, PyNone, TRUE >>

\* update_bot_data
BotDataUpdated(bot_data, cache, data) ==
    IF PyEq(bot_data, data) THEN << bot_data, cache, FALSE >>
    ELSE << data, PyNone, TRUE >>

\* update_callback_data: (data[0], data[1].copy())
CallbackDataUpdated(callback_data, cache, data) ==
    IF PyEq(callback_data, data) THEN << callback_data, cache, FALSE >>
    ELSE << PyTuple(<< data[2][1], data[2][2] >>), PyNone, TRUE >>

Updating(name, args) ==
    /\ phase = "live"
    /\ nupd < MaxUpdates
    /\ nupd' = nupd + 1
    /\ lastupd' = << name >> \o args
    /\ readsince' = FALSE
    /\ repeated' = IF lastupd # << name >> \o args THEN "no"
                   ELSE IF readsince THEN "after_read" ELSE "direct"
    /\ Called(name, args, PyNone)
    /\ returned' = { }
    /\ UNCHANGED << phase, nchg, frame, seen, handler >>

\* Defect: update_chat_data invalidating the user_data cache, not its own
update_chat_data_sibling(chat_id, data) ==
    /\ Updating("update_chat_data", << PyInt(chat_id), data >>)
    /\ LET r == EntityUpdated(_chat_data, _chat_data_json, chat_id, data)
       IN _chat_data' = r[1] /\ wrote' = r[3]
          /\ _user_data_json' = IF r[3] THEN PyNone ELSE _user_data_json
    /\ UNCHANGED << _user_data, _bot_data, _callback_data, _conversations,
                    _chat_data_json, _bot_data_json, _callback_data_json,
                    _conversations_json >>

update_conversation(name, key, new_state) ==
    /\ Updating("update_conversation", << PyStr(name), key, new_state >>)
    /\ LET r == ConversationUpdated(_conversations, _conversations_json,
                                    name, key, new_state)
       IN _conversations' = r[1] /\ _conversations_json' = r[2] /\ wrote' = r[3]
    /\ UNCHANGED << _user_data, _chat_data, _bot_data, _callback_data,
                    _user_data_json, _chat_data_json, _bot_data_json,
                    _callback_data_json >>

update_user_data(user_id, data) ==
    /\ Updating("update_user_data", << PyInt(user_id), data >>)
    /\ LET r == EntityUpdated(_user_data, _user_data_json, user_id, data)
       IN _user_data' = r[1] /\ _user_data_json' = r[2] /\ wrote' = r[3]
    /\ UNCHANGED << _chat_data, _bot_data, _callback_data, _conversations,
                    _chat_data_json, _bot_data_json, _callback_data_json,
                    _conversations_json >>

update_chat_data(chat_id, data) ==
    /\ Updating("update_chat_data", << PyInt(chat_id), data >>)
    /\ LET r == EntityUpdated(_chat_data, _chat_data_json, chat_id, data)
       IN _chat_data' = r[1] /\ _chat_data_json' = r[2] /\ wrote' = r[3]
    /\ UNCHANGED << _user_data, _bot_data, _callback_data, _conversations,
                    _user_data_json, _bot_data_json, _callback_data_json,
                    _conversations_json >>

update_bot_data(data) ==
    /\ Updating("update_bot_data", << data >>)
    /\ LET r == BotDataUpdated(_bot_data, _bot_data_json, data)
       IN _bot_data' = r[1] /\ _bot_data_json' = r[2] /\ wrote' = r[3]
    /\ UNCHANGED << _user_data, _chat_data, _callback_data, _conversations,
                    _user_data_json, _chat_data_json, _callback_data_json,
                    _conversations_json >>

update_callback_data(data) ==
    /\ Updating("update_callback_data", << data >>)
    /\ LET r == CallbackDataUpdated(_callback_data, _callback_data_json, data)
       IN _callback_data' = r[1] /\ _callback_data_json' = r[2] /\ wrote' = r[3]
    /\ UNCHANGED << _user_data, _chat_data, _bot_data, _conversations,
                    _user_data_json, _chat_data_json, _bot_data_json,
                    _conversations_json >>

\* refresh_user_data, refresh_chat_data, refresh_bot_data and flush do nothing
DoesNothing(name) ==
    /\ phase = "live"
    /\ Called(name, << >>, PyNone)
    /\ returned' = { }
    /\ UNCHANGED << phase, store, history, handler >>

----------------------------------------------------------------------------
(* The store: construction from a snapshot, then any calls *)

Init ==
    /\ phase = "new"
    /\ _user_data = PyNone /\ _chat_data = PyNone /\ _bot_data = PyNone
    /\ _callback_data = PyNone /\ _conversations = PyNone
    /\ _user_data_json = PyNone /\ _chat_data_json = PyNone
    /\ _bot_data_json = PyNone /\ _callback_data_json = PyNone
    /\ _conversations_json = PyNone
    /\ op = << "none" >>
    /\ ret = PyNone
    /\ returned = { }
    /\ nupd = 0
    /\ lastupd = << "none" >>
    /\ readsince = FALSE
    /\ repeated = "no"
    /\ wrote = FALSE
    /\ nchg = 0
    /\ frame = << "idle", "none" >>
    /\ seen = << >>
    /\ hphase = "new"
    /\ hclass = "none"
    /\ hop = << "none" >>
    /\ command = << >>
    /\ filters = PyNone
    /\ _prefix = << >> /\ _command = << >> /\ _commands = << >>
    /\ context = PyNone
    /\ nchk = 0
    /\ hret = PyNone

Reads ==
    \/ user_data_json
    \/ chat_data_json
    \/ bot_data_json
    \/ callback_data_json
    \/ conversations_json

Gets ==
    \/ get_user_data
    \/ get_chat_data
    \/ get_bot_data
    \/ get_callback_data
    \/ \E name \in Names : get_conversations(name)

Updates ==
    \/ \E name \in Names, key \in Keys, new_state \in States :
          update_conversation(name, key, new_state)
    \/ \E user_id \in UserIds, data \in Datas : update_user_data(user_id, data)
    \/ \E chat_id \in ChatIds, data \in Datas : update_chat_data(chat_id, data)
    \/ \E data \in Datas : update_bot_data(data)
    \/ \E data \in CallbackDatas : update_callback_data(data)

Nothings ==
    \E name \in {"refresh_user_data", "refresh_chat_data", "refresh_bot_data", "flush"} :
        DoesNothing(name)

Next ==
    \/ \E p \in Snapshots : Construct(p[1], p[2], p[3], p[4], p[5])
    \/ Reads
    \/ Gets
    \/ Updates
    \/ Nothings

Spec == Init /\ [][Next]_vars

----------------------------------------------------------------------------
(* Properties of the store, checked under Spec *)

JsonProperties ==
    {"user_data_json", "chat_data_json", "bot_data_json", "callback_data_json",
     "conversations_json"}

\* the step is an update_* call of the given name
UpdateStep(name) == nupd' = nupd + 1 /\ op'[1] = name

\* the fields an update of one collection must leave alone
OthersThanUser ==
    << _chat_data, _bot_data, _callback_data, _conversations,
       _chat_data_json, _bot_data_json, _callback_data_json, _conversations_json >>
OthersThanChat ==
    << _user_data, _bot_data, _callback_data, _conversations,
       _user_data_json, _bot_data_json, _callback_data_json, _conversations_json >>
OthersThanBot ==
    << _user_data, _chat_data, _callback_data, _conversations,
       _user_data_json, _chat_data_json, _callback_data_json, _conversations_json >>
OthersThanCallback ==
    << _user_data, _chat_data, _bot_data, _conversations,
       _user_data_json, _chat_data_json, _bot_data_json, _conversations_json >>
OthersThanConversations ==
    << _user_data, _chat_data, _bot_data, _callback_data,
       _user_data_json, _chat_data_json, _bot_data_json, _callback_data_json >>

\* a cache field is None, or its text decodes to the live collection
CacheDecodes(cache, decoded, live) ==
    IF IsNone(cache) THEN TRUE ELSE decoded.exc = "" /\ PyEq(decoded.v, live)

\* C1: in every reachable state of a constructed store, each of the five
\* cache fields that is not None holds a text that decodes, with the decoder
\* of its collection, to the live collection.
CacheMatchesLive ==
    phase = "live" =>
        /\ CacheDecodes(_user_data_json, UserDataPayload(_user_data_json[2]), _user_data)
        /\ CacheDecodes(_chat_data_json, ChatDataPayload(_chat_data_json[2]), _chat_data)
        /\ CacheDecodes(_bot_data_json, BotDataPayload(_bot_data_json[2]), _bot_data)
        /\ CacheDecodes(_callback_data_json, CallbackDataPayload(_callback_data_json[2]),
                        _callback_data)
        /\ CacheDecodes(_conversations_json, ConversationsPayload(_conversations_json[2]),
                        _conversations)

\* the value an entity map holds for the id equals the data
StoredEquals(entities, id, data) ==
    IsDict(entities) /\ DictHas(entities, id) /\ PyEq(DictGet(entities, id, PyNone), data)

\* C2: update_user_data, update_chat_data, update_bot_data and
\* update_callback_data with a value equal to the stored one take the early
\* return and change none of the ten fields: the cache keeps its value.
EqualUpdateChangesNothing ==
    [][ /\ (UpdateStep("update_user_data") /\ StoredEquals(_user_data, op'[2], op'[3]))
            => (~wrote' /\ UNCHANGED store)
        /\ (UpdateStep("update_chat_data") /\ StoredEquals(_chat_data, op'[2], op'[3]))
            => (~wrote' /\ UNCHANGED store)
        /\ (UpdateStep("update_bot_data") /\ PyEq(_bot_data, op'[2]))
            => (~wrote' /\ UNCHANGED store)
        /\ (UpdateStep("update_callback_data") /\ PyEq(_callback_data, op'[2]))
            => (~wrote' /\ UNCHANGED store)
      ]_vars

\* an update_chat_data call with the stored value has returned early and the
\* cache it would have invalidated is still there
EqualUpdateKeptCache ==
    /\ op[1] = "update_chat_data" /\ op = lastupd
    /\ ~wrote
    /\ StoredEquals(_chat_data, op[2], op[3])
    /\ ~IsNone(_chat_data_json)

\* the other keys of an entity map keep what they held
OtherEntitiesKept(before, after, id) ==
    \A i \in 1..Len(after[2]) :
        \/ PyEq(after[2][i][1], id)
        \/ /\ IsDict(before) /\ DictHas(before, after[2][i][1])
           /\ DictGet(before, after[2][i][1], PyNone) = after[2][i][2]

\* the state a conversations map holds for the key of a handler: None for a
\* key, a handler or a map that is not there
StoredState(conversations, name, key) ==
    IF IsDict(conversations)
    THEN DictGet(DictGet(conversations, name, EmptyDict), key, PyNone)
    ELSE PyNone

\* C3: an update_* call with a value not equal to the stored one (for
\* update_conversation: to the state the key holds, None when it holds none)
\* stores the value, sets its own cache field to None and leaves the other
\* four collections and the other four cache fields as they were; no
\* update_* call, writing or not, touches another collection or another cache.
ChangingUpdateTouchesOwnOnly ==
    [][ /\ UpdateStep("update_user_data") =>
              /\ UNCHANGED OthersThanUser
              /\ ~StoredEquals(_user_data, op'[2], op'[3]) =>
                    /\ wrote' /\ IsNone(_user_data_json')
                    /\ DictGet(_user_data', op'[2], PyNone) = op'[3]
                    /\ OtherEntitiesKept(_user_data, _user_data', op'[2])
        /\ UpdateStep("update_chat_data") =>
              /\ UNCHANGED OthersThanChat
              /\ ~StoredEquals(_chat_data, op'[2], op'[3]) =>
                    /\ wrote' /\ IsNone(_chat_data_json')
                    /\ DictGet(_chat_data', op'[2], PyNone) = op'[3]
                    /\ OtherEntitiesKept(_chat_data, _chat_data', op'[2])
        /\ UpdateStep("update_bot_data") =>
              /\ UNCHANGED OthersThanBot
              /\ ~PyEq(_bot_data, op'[2]) =>
                    wrote' /\ IsNone(_bot_data_json') /\ _bot_data' = op'[2]
        /\ UpdateStep("update_callback_data") =>
              /\ UNCHANGED OthersThanCallback
              /\ ~PyEq(_callback_data, op'[2]) =>
                    wrote' /\ IsNone(_callback_data_json') /\ _callback_data' = op'[2]
        /\ UpdateStep("update_conversation") =>
              /\ UNCHANGED OthersThanConversations
              /\ ~PyEq(StoredState(_conversations, op'[2], op'[3]), op'[4]) =>
                    /\ wrote' /\ IsNone(_conversations_json')
                    /\ DictHas(DictGet(_conversations', op'[2], EmptyDict), op'[3])
                    /\ DictGet(DictGet(_conversations', op'[2], EmptyDict),
                               op'[3], PyNone) = op'[4]
      ]_vars

\* the first update of a store built from five payloads was an
\* update_chat_data that wrote: its cache is gone, the other four are there
ChangingUpdateHappened ==
    /\ op[1] = "update_chat_data" /\ op = lastupd /\ nupd = 1
    /\ wrote
    /\ IsNone(_chat_data_json)
    /\ DictGet(_chat_data, op[2], PyNone) = op[3]
    /\ ~IsNone(_user_data_json) /\ ~IsNone(_bot_data_json)
    /\ ~IsNone(_callback_data_json) /\ ~IsNone(_conversations_json)

\* C4: reading any of the five *_json properties leaves the ten fields of
\* the store as they were; after a read on a cache miss the field is still None.
ReadChangesNothing ==
    [][ op'[1] \in JsonProperties => UNCHANGED store ]_vars

\* bot_data_json was read on a cache miss: it returned the encoding of the
\* live map and the cache field is None
ReadOnMissHappened ==
    /\ op = << "bot_data_json" >>
    /\ IsNone(_bot_data_json)
    /\ IsDict(_bot_data)
    /\ ret = PyStr(Dumps(_bot_data))

\* C5: an update_* call that repeats the update_* call before it, with the
\* same arguments, with or without *_json reads in between, takes the early
\* return: no store write, no cache invalidation, the ten fields unchanged.
RepeatedUpdateChangesNothing ==
    [][ (nupd' = nupd + 1 /\ repeated' # "no") => (~wrote' /\ UNCHANGED store) ]_vars

\* update_callback_data was called twice with the same argument, a read in
\* between; the first call wrote, since the store had no callback data
RepeatedUpdateHappened ==
    /\ op[1] = "update_callback_data" /\ op = lastupd /\ nupd = 2
    /\ repeated = "after_read"
    /\ ~wrote
    /\ IsNone(_callback_data_json)
    /\ IsNone(_user_data_json)
    /\ PyEq(_callback_data, op[2])

\* what reading conversations_json returns in this state
ConversationsRead ==
    IF Truthy(_conversations_json) THEN Ok(_conversations_json)
    ELSE _encode_conversations_to_json(_conversations)

\* a new store built from the text conversations_json returns
Reconstructed == __init__("", "", "", ConversationsRead.v[2], "")

\* get_conversations(name) of the new store
ReconstructedConversations(name) == DictGet(Reconstructed.fields[5], name, EmptyDict)

\* decoding the encoding of the live conversations map gives the same map;
\* stated after the calls that can change the map
EncodingDecodes ==
    (op[1] \in {"__init__", "update_conversation", "get_conversations"}
        /\ IsDict(_conversations)) =>
        /\ _encode_conversations_to_json(_conversations).exc = ""
        /\ _decode_conversations_from_json(
               _encode_conversations_to_json(_conversations).v[2]).exc = ""
        /\ PyEq(_decode_conversations_from_json(
                    _encode_conversations_to_json(_conversations).v[2]).v,
                _conversations)

\* C6 as stated: after update_conversation(h, k, s), a store built from the
\* conversations_json text has get_conversations(h) mapping the tuple k to s,
\* for every state s; and the encoding of the live conversations map decodes
\* to the same map.
RoundTripMapsKeyToState ==
    /\ op[1] = "update_conversation" =>
          /\ ConversationsRead.exc = "" /\ Reconstructed.exc = ""
          /\ DictHas(ReconstructedConversations(op[2]), op[3])
          /\ PyEq(DictGet(ReconstructedConversations(op[2]), op[3], PyNone), op[4])
    /\ EncodingDecodes

\* C6, amended: after update_conversation(h, k, s) with s not None, a store
\* built from the conversations_json text has get_conversations(h) mapping
\* the tuple k to s; with s None the rebuilt map holds None for k only if k
\* held a state before the call, and otherwise has no k; and the encoding of
\* the live conversations map decodes to the same map.
RoundTripKeepsStoredState ==
    /\ op[1] = "update_conversation" =>
          /\ ConversationsRead.exc = "" /\ Reconstructed.exc = ""
          /\ PyEq(DictGet(ReconstructedConversations(op[2]), op[3], PyNone), op[4])
          /\ ~IsNone(op[4]) => DictHas(ReconstructedConversations(op[2]), op[3])
          /\ DictHas(ReconstructedConversations(op[2]), op[3])
                <=> DictHas(DictGet(_conversations, op[2], EmptyDict), op[3])
    /\ EncodingDecodes

\* update_conversation wrote a state that is not None, and the rebuilt store
\* has the tuple key with that state
RoundTripHappened ==
    /\ op[1] = "update_conversation" /\ op = lastupd
    /\ wrote
    /\ op[4] = PyStr("S")
    /\ Tag(op[3]) = "tuple"
    /\ DictGet(ReconstructedConversations(op[2]), op[3], PyNone) = PyStr("S")
    /\ Len(_conversations[2]) = 2

\* C21: update_conversation(name, key, new_state) called when the state
\* stored for (name, key) equals new_state, an absent key or handler counting
\* as state None, is a complete no-op: the conversations collection, its set
\* of handler names included, and _conversations_json keep their values.
EqualConversationUpdateIsNoOp ==
    [][ (UpdateStep("update_conversation")
            /\ PyEq(StoredState(_conversations, op'[2], op'[3]), op'[4]))
        => (_conversations' = _conversations
            /\ _conversations_json' = _conversations_json) ]_vars

\* the cache field a *_json property reads
CacheOf(name) ==
    CASE name = "user_data_json" -> _user_data_json
      [] name = "chat_data_json" -> _chat_data_json
      [] name = "bot_data_json" -> _bot_data_json
      [] name = "callback_data_json" -> _callback_data_json
      [] name = "conversations_json" -> _conversations_json

\* a payload text that is not empty is the cache of the store constructed
CacheIsPayload(payload, cache) == payload[2] # "" => cache = payload

\* C25: while the cache field of a collection is not None, a read of its
\* *_json property returns that string; a store constructed from a valid
\* input string s that is not empty has s as the cache, and the cache keeps
\* its value in every step but an update_* call of that collection that
\* writes, so that the property returns s, character for character, until then.
CachedStringReturned ==
    [][/\ (op'[1] \in JsonProperties /\ ~IsNone(CacheOf(op'[1]))) =>
             ret' = CacheOf(op'[1])
       /\ (op'[1] = "__init__" /\ phase' = "live") =>
             /\ CacheIsPayload(op'[2], _user_data_json')
             /\ CacheIsPayload(op'[3], _chat_data_json')
             /\ CacheIsPayload(op'[4], _bot_data_json')
             /\ CacheIsPayload(op'[5], _conversations_json')
             /\ CacheIsPayload(op'[6], _callback_data_json')
       /\ (phase = "live" /\ ~(UpdateStep("update_user_data") /\ wrote')) =>
             UNCHANGED _user_data_json
       /\ (phase = "live" /\ ~(UpdateStep("update_chat_data") /\ wrote')) =>
             UNCHANGED _chat_data_json
       /\ (phase = "live" /\ ~(UpdateStep("update_bot_data") /\ wrote')) =>
             UNCHANGED _bot_data_json
       /\ (phase = "live" /\ ~(UpdateStep("update_callback_data") /\ wrote')) =>
             UNCHANGED _callback_data_json
       /\ (phase = "live" /\ ~(UpdateStep("update_conversation") /\ wrote')) =>
             UNCHANGED _conversations_json]_vars

\* callback_data_json was read after an update of another collection: it
\* returned the text the store was constructed from, which is not the text
\* the live callback data encodes to
CachedPayloadReturned ==
    /\ op = << "callback_data_json" >>
    /\ nupd > 0 /\ wrote /\ lastupd[1] = "update_user_data"
    /\ ret = PyStr("[[[\"a\", 1, {}]], {}]")
    /\ ret = _callback_data_json
    /\ ret # DumpsResult(_callback_data).v

\* a collection constructed without a payload has no cache
NoPayloadNoCache(payload, cache) == payload[2] = "" => IsNone(cache)

\* C26: a cache field of a constructed store that is None stays None in
\* every later state, whatever get_*, update_*, refresh_*, flush calls and
\* *_json reads are made; a store constructed without a payload for a
\* collection has that cache None from construction on.
CacheOnceNoneStaysNone ==
    [][/\ (op'[1] = "__init__" /\ phase' = "live") =>
             /\ NoPayloadNoCache(op'[2], _user_data_json')
             /\ NoPayloadNoCache(op'[3], _chat_data_json')
             /\ NoPayloadNoCache(op'[4], _bot_data_json')
             /\ NoPayloadNoCache(op'[5], _conversations_json')
             /\ NoPayloadNoCache(op'[6], _callback_data_json')
       /\ phase = "live" =>
             /\ IsNone(_user_data_json) => IsNone(_user_data_json')
             /\ IsNone(_chat_data_json) => IsNone(_chat_data_json')
             /\ IsNone(_bot_data_json) => IsNone(_bot_data_json')
             /\ IsNone(_callback_data_json) => IsNone(_callback_data_json')
             /\ IsNone(_conversations_json) => IsNone(_conversations_json')]_vars

\* chat_data_json was read after the update_chat_data call that set its
\* cache to None: the read returned the encoding of the live map and the
\* cache is still None
InvalidatedCacheStayedNone ==
    /\ op = << "chat_data_json" >>
    /\ lastupd[1] = "update_chat_data" /\ wrote
    /\ ~IsNone(_user_data_json)
    /\ IsNone(_chat_data_json)
    /\ IsDict(_chat_data)
    /\ ret = PyStr(Dumps(_chat_data))

\* every key of the map before is a key of the map after
KeysKept(before, after) ==
    \/ after = before
    \/ IsDict(before) =>
          /\ IsDict(after)
          /\ \A i \in 1..Len(before[2]) : DictHas(after, before[2][i][1])

\* the keys under a handler before the step are its keys after it
HandlerKeysKept(name) ==
    KeysKept(DictGet(_conversations, name, EmptyDict),
             DictGet(_conversations', name, EmptyDict))

\* C27: no operation of the store deletes an entry: in every step (update_*,
\* get_*, refresh_*, flush, *_json reads) the user ids of user_data, the chat
\* ids of chat_data, the handler names of conversations and the keys under
\* each handler are kept; a conversation updated to state None keeps its key,
\* with a null state.
NoEntryDeleted ==
    [][phase = "live" =>
          /\ KeysKept(_user_data, _user_data')
          /\ KeysKept(_chat_data, _chat_data')
          /\ KeysKept(_conversations, _conversations')
          /\ \/ _conversations' = _conversations
             \/ IsDict(_conversations) =>
                   \A i \in 1..Len(_conversations[2]) :
                       HandlerKeysKept(_conversations[2][i][1])
          /\ (UpdateStep("update_conversation") /\ IsNone(op'[4])
                /\ IsDict(_conversations)
                /\ DictHas(DictGet(_conversations, op'[2], EmptyDict), op'[3])) =>
                /\ DictHas(DictGet(_conversations', op'[2], EmptyDict), op'[3])
                /\ IsNone(DictGet(DictGet(_conversations', op'[2], EmptyDict),
                                  op'[3], PyStr("")))]_vars

\* update_conversation wrote None for a key that held a state: the key is
\* there, with None
EndedConversationKept ==
    /\ op[1] = "update_conversation" /\ op = lastupd
    /\ wrote /\ IsNone(op[4])
    /\ DictHas(DictGet(_conversations, op[2], EmptyDict), op[3])
    /\ IsNone(DictGet(DictGet(_conversations, op[2], EmptyDict), op[3], PyStr("")))

\* C29: read-your-writes, from any reachable state of the store: after
\* update_user_data(u, d) get_user_data()[u] equals d, after
\* update_chat_data(c, d) get_chat_data()[c] equals d, after
\* update_bot_data(d) get_bot_data() equals d, after update_callback_data(d)
\* get_callback_data() equals d, and after update_conversation(n, k, s)
\* get_conversations(n).get(k) equals s.
ReadYourWrites ==
    [][/\ (op[1] = "update_user_data" /\ op'[1] = "get_user_data") =>
             StoredEquals(ret', op[2], op[3])
       /\ (op[1] = "update_chat_data" /\ op'[1] = "get_chat_data") =>
             StoredEquals(ret', op[2], op[3])
       /\ (op[1] = "update_bot_data" /\ op'[1] = "get_bot_data") =>
             PyEq(ret', op[2])
       /\ (op[1] = "update_callback_data" /\ op'[1] = "get_callback_data") =>
             PyEq(ret', op[2])
       /\ (op[1] = "update_conversation" /\ op'[1] = "get_conversations"
             /\ op'[2] = op[2]) =>
             PyEq(DictGet(ret', op[3], PyNone), op[4])]_vars

\* get_bot_data() returned the map that the update_bot_data call before it
\* had put in the place of another one
WrittenBotDataRead ==
    /\ op = << "get_bot_data" >>
    /\ lastupd[1] = "update_bot_data" /\ wrote /\ nupd = 2
    /\ ret = lastupd[2]
    /\ ret = EmptyDict
    /\ ~IsNone(_user_data_json)

\* C30: in every reachable state of a store, one constructed with no
\* payloads and with no get_* or update_* call made included, a read of
\* user_data_json, chat_data_json, bot_data_json, callback_data_json or
\* conversations_json returns a string and does not raise.
JsonReadReturnsString ==
    op[1] \in JsonProperties => (~Raised(ret) /\ IsStr(ret))

----------------------------------------------------------------------------
(* Two threads on one store: a mutator thread runs an update_* call one
   statement at a time, a reader thread reads a collection and then its
   *_json property.  The store has no lock, so the reader's reads fall
   between any two statements of the mutator. *)

\* the number of update_* calls the mutator thread makes
MaxCalls == 1

\* the collection property and the *_json property of an update_* method
CollectionName(method) ==
    CASE method = "update_user_data" -> "user_data"
      [] method = "update_chat_data" -> "chat_data"
      [] method = "update_bot_data" -> "bot_data"
      [] method = "update_callback_data" -> "callback_data"
      [] method = "update_conversation" -> "conversations"
      [] OTHER -> "none"

\* self.user_data, self.chat_data, ...: the properties that return the field
Collection(name) ==
    CASE name = "user_data" -> _user_data
      [] name = "chat_data" -> _chat_data
      [] name = "bot_data" -> _bot_data
      [] name = "callback_data" -> _callback_data
      [] name = "conversations" -> _conversations

\* the collection of the call becomes value, the others keep theirs
SetCollection(name, value) ==
    /\ _user_data' = IF name = "user_data" THEN value ELSE _user_data
    /\ _chat_data' = IF name = "chat_data" THEN value ELSE _chat_data
    /\ _bot_data' = IF name = "bot_data" THEN value ELSE _bot_data
    /\ _callback_data' = IF name = "callback_data" THEN value ELSE _callback_data
    /\ _conversations' = IF name = "conversations" THEN value ELSE _conversations

\* the cache field of the call becomes value, the others keep theirs
SetCache(name, value) ==
    /\ _user_data_json' = IF name = "user_data" THEN value ELSE _user_data_json
    /\ _chat_data_json' = IF name = "chat_data" THEN value ELSE _chat_data_json
    /\ _bot_data_json' = IF name = "bot_data" THEN value ELSE _bot_data_json
    /\ _callback_data_json' =
          IF name = "callback_data" THEN value ELSE _callback_data_json
    /\ _conversations_json' =
          IF name = "conversations" THEN value ELSE _conversations_json

Collections == << _user_data, _chat_data, _bot_data, _callback_data, _conversations >>
Caches ==
    << _user_data_json, _chat_data_json, _bot_data_json, _callback_data_json,
       _conversations_json >>

\* what the call of frame f leaves, from the state as it is:
\* << collection, cache, wrote >>
Updated(f) ==
    CASE f[2] = "update_user_data" ->
            EntityUpdated(_user_data, _user_data_json, f[3][2], f[4])
      [] f[2] = "update_chat_data" ->
            EntityUpdated(_chat_data, _chat_data_json, f[3][2], f[4])
      [] f[2] = "update_bot_data" -> BotDataUpdated(_bot_data, _bot_data_json, f[3])
      [] f[2] = "update_callback_data" ->
            CallbackDataUpdated(_callback_data, _callback_data_json, f[3])
      [] f[2] = "update_conversation" ->
            ConversationUpdated(_conversations, _conversations_json, f[3][2], f[4], f[5])

\* the mutator thread enters an update_* method
Enter(name, args) ==
    /\ phase = "live"
    /\ frame[1] = "idle"
    /\ nupd < MaxCalls
    /\ nupd' = nupd + 1
    /\ lastupd' = << name >> \o args
    /\ frame' = << IF name \in { "update_bot_data", "update_callback_data" }
                   THEN "compare" ELSE "default" >> \o << name >> \o args
    /\ UNCHANGED << phase, store, op, ret, returned, readsince, repeated, wrote,
                    nchg, seen, handler >>

\* if self._user_data is None: self._user_data = defaultdict(dict)
\* if not self._conversations: self._conversations = {}
Default ==
    /\ frame[1] = "default"
    /\ SetCollection(CollectionName(frame[2]),
                     IF frame[2] = "update_conversation"
                     THEN IF Truthy(_conversations) THEN _conversations ELSE EmptyDict
                     ELSE IF IsNone(Collection(CollectionName(frame[2]))) THEN EmptyDict
                     ELSE Collection(CollectionName(frame[2])))
    /\ frame' = [frame EXCEPT ![1] = "compare"]
    /\ UNCHANGED << phase, Caches, op, ret, returned, nupd, lastupd, readsince,
                    repeated, wrote, nchg, seen, handler >>

\* if self._user_data.get(user_id) == data: return
\* if self._conversations.setdefault(name, {}).get(key) == new_state: return
Compare ==
    /\ frame[1] = "compare"
    /\ wrote' = Updated(frame)[3]
    /\ SetCollection(CollectionName(frame[2]),
                     IF frame[2] = "update_conversation"
                     THEN DictSetDefault(_conversations, frame[3], EmptyDict)
                     ELSE Collection(CollectionName(frame[2])))
    /\ frame' = [frame EXCEPT ![1] = IF Updated(frame)[3] THEN "write" ELSE "idle"]
    /\ UNCHANGED << phase, Caches, op, ret, returned, nupd, lastupd, readsince,
                    repeated, nchg, seen, handler >>

\* self._user_data[user_id] = data, self._bot_data = data, ...
Write ==
    /\ frame[1] = "write"
    /\ SetCollection(CollectionName(frame[2]), Updated(frame)[1])
    /\ frame' = [frame EXCEPT ![1] = "invalidate"]
    /\ UNCHANGED << phase, Caches, op, ret, returned, nupd, lastupd, readsince,
                    repeated, wrote, nchg, seen, handler >>

\* Defect: the method returns without self._user_data_json = None
InvalidateSkipped ==
    /\ frame[1] = "invalidate"
    /\ frame' = [frame EXCEPT ![1] = "idle"]
    /\ UNCHANGED << phase, store, op, ret, returned, nupd, lastupd, readsince,
                    repeated, wrote, nchg, seen, handler >>

\* self._user_data_json = None, and the method returns
Invalidate ==
    /\ frame[1] = "invalidate"
    /\ SetCache(CollectionName(frame[2]), PyNone)
    /\ frame' = [frame EXCEPT ![1] = "idle"]
    /\ UNCHANGED << phase, Collections, op, ret, returned, nupd, lastupd, readsince,
                    repeated, wrote, nchg, seen, handler >>

\* the reader thread reads the collection of the mutator's call
ReadCollection ==
    /\ phase = "live"
    /\ frame[2] # "none"
    /\ seen' = << << CollectionName(frame[2]), Collection(CollectionName(frame[2])),
                     frame >> >>
    /\ UNCHANGED << phase, store, op, ret, returned, nupd, lastupd, readsince,
                    repeated, wrote, nchg, frame, handler >>

\* the encoding a *_json property computes on a cache miss
Encoded(name) ==
    IF name = "conversations" THEN _encode_conversations_to_json(_conversations)
    ELSE DumpsResult(Collection(name))

\* what a read of the *_json property of a collection returns
JsonRead(name) ==
    IF Truthy(CacheOf(name \o "_json")) THEN CacheOf(name \o "_json")
    ELSE IF Encoded(name).exc = "" THEN Encoded(name).v
    ELSE Raise(Encoded(name).exc, Encoded(name).msg)

\* the reader thread reads the *_json property of the collection it has read
ReadCollectionJson ==
    /\ phase = "live"
    /\ Len(seen) = 1
    /\ seen' = Append(seen, << seen[1][1] \o "_json", JsonRead(seen[1][1]), frame,
                               CacheOf(seen[1][1] \o "_json") >>)
    /\ UNCHANGED << phase, store, op, ret, returned, nupd, lastupd, readsince,
                    repeated, wrote, nchg, frame, handler >>

NextThreads ==
    \/ \E p \in Snapshots : Construct(p[1], p[2], p[3], p[4], p[5])
    \/ \E name \in Names, key \in Keys, new_state \in States :
          Enter("update_conversation", << PyStr(name), key, new_state >>)
    \/ \E user_id \in UserIds, data \in Datas :
          Enter("update_user_data", << PyInt(user_id), data >>)
    \/ \E chat_id \in ChatIds, data \in Datas :
          Enter("update_chat_data", << PyInt(chat_id), data >>)
    \/ \E data \in Datas : Enter("update_bot_data", << data >>)
    \/ \E data \in CallbackDatas : Enter("update_callback_data", << data >>)
    \/ Default
    \/ Compare
    \/ Write
    \/ Invalidate
    \/ ReadCollection
    \/ ReadCollectionJson

SpecThreads == Init /\ [][NextThreads]_vars

----------------------------------------------------------------------------
(* claims about the two threads *)

\* the collection holds the new value of the call of frame f
HoldsNew(coll, f) ==
    CASE f[2] \in { "update_user_data", "update_chat_data" } ->
            StoredEquals(coll, f[3], f[4])
      [] f[2] \in { "update_bot_data", "update_callback_data" } -> PyEq(coll, f[3])
      [] f[2] = "update_conversation" -> PyEq(StoredState(coll, f[3], f[4]), f[5])
      [] OTHER -> FALSE

\* the collection the text of a *_json property decodes to
Decoded(name, text) ==
    CASE name = "user_data" -> UserDataPayload(text)
      [] name = "chat_data" -> ChatDataPayload(text)
      [] name = "bot_data" -> BotDataPayload(text)
      [] name = "callback_data" -> CallbackDataPayload(text)
      [] name = "conversations" -> ConversationsPayload(text)

\* the reader has read a collection that holds the new value of the
\* mutator's call and then, from the *_json property, the cached string,
\* which encodes a collection that does not hold it
ObservedTorn ==
    /\ Len(seen) = 2
    /\ HoldsNew(seen[1][2], seen[1][3])
    /\ ~IsNone(seen[2][4]) /\ seen[2][2] = seen[2][4]
    /\ ~HoldsNew(Decoded(seen[1][1], seen[2][2][2]).v, seen[1][3])

\* C28 as stated: each update_* method updates its collection and
\* invalidates its cache atomically for a concurrent reader: a reader that
\* reads the collection and the *_json property while a mutator runs never
\* observes the collection holding the new value together with the old
\* cached string.
NoTornRead == ~ObservedTorn

\* C28, amended: the update_* methods are not atomic for a concurrent reader,
\* but the torn state exists only between the statement that writes the
\* collection and the next one, which sets the cache to None: a reader
\* observes the new value together with the old cached string only if both
\* of its reads fall between these two statements of one call; reads made
\* when no update_* call is in progress never observe it.
TornReadOnlyInsideMutator ==
    ObservedTorn => (seen[1][3][1] = "invalidate" /\ seen[2][3] = seen[1][3])

\* the reader read bot_data and bot_data_json after update_bot_data had
\* assigned the new map and before it had set the cache to None
TornReadSeen ==
    /\ ObservedTorn
    /\ seen[1][1] = "bot_data" /\ seen[1][3][2] = "update_bot_data"
    /\ seen[1][3][1] = "invalidate"
    /\ seen[1][2] = seen[1][3][3]
    /\ seen[2][2] = PyStr("{\"a\": 1}")

----------------------------------------------------------------------------
(* A snapshot of a store, and the store built from it:
   DictPersistence(user_data_json=old.user_data_json,
                   chat_data_json=old.chat_data_json,
                   bot_data_json=old.bot_data_json,
                   conversations_json=old.conversations_json,
                   callback_data_json=old.callback_data_json)
   after construction and update_* calls only *)

\* data whose inner key is a string of digits, and data whose inner key is
\* an integer
DataDigits == PyDict(<< << PyStr("1"), PyInt(1) >> >>)
DataInt == PyDict(<< << PyInt(2), PyStr("x") >> >>)
SnapshotDatas == Datas \cup { DataDigits, DataInt }

\* the five collections in the order of the constructor's parameters
SnapshotNames ==
    << "user_data", "chat_data", "bot_data", "conversations", "callback_data" >>

\* what the five *_json properties return, in that order
Snapshot == [ i \in 1..5 |-> JsonRead(SnapshotNames[i]) ]

\* the arguments are evaluated left to right: the first read that raises
\* ends the call
FirstRaised(s) ==
    s[CHOOSE i \in 1..5 : Raised(s[i]) /\ \A j \in 1..(i - 1) : ~Raised(s[j])]

\* the new store as << "DictPersistence", fields >>, or the exception of a
\* read or of the constructor
Rebuilt(s) ==
    IF \E i \in 1..5 : Raised(s[i]) THEN FirstRaised(s)
    ELSE LET r == __init__(s[1][2], s[2][2], s[3][2], s[4][2], s[5][2])
         IN IF r.exc # "" THEN Raise(r.exc, r.msg)
            ELSE << "DictPersistence", r.fields >>

Rebuild ==
    /\ phase = "live"
    /\ \E s \in { Snapshot } : \E r \in { Rebuilt(s) } : Called("rebuild", << >>, r)
    /\ returned' = { }
    /\ UNCHANGED << phase, store, history, handler >>

NextSnapshot ==
    \/ \E p \in Snapshots : Construct(p[1], p[2], p[3], p[4], p[5])
    \/ \E name \in Names, key \in Keys, new_state \in States :
          update_conversation(name, key, new_state)
    \/ \E user_id \in UserIds, data \in SnapshotDatas : update_user_data(user_id, data)
    \/ \E chat_id \in ChatIds, data \in SnapshotDatas : update_chat_data(chat_id, data)
    \/ \E data \in SnapshotDatas : update_bot_data(data)
    \/ \E data \in CallbackDatas : update_callback_data(data)
    \/ Rebuild

SpecSnapshot == Init /\ [][NextSnapshot]_vars

\* the collection of a new store, by name
FieldOf(fields, name) ==
    CASE name = "user_data" -> fields[1]
      [] name = "chat_data" -> fields[2]
      [] name = "bot_data" -> fields[3]
      [] name = "callback_data" -> fields[4]
      [] name = "conversations" -> fields[5]

\* what get_user_data, get_chat_data, get_bot_data and get_callback_data
\* return on a store whose collection is value
GetResult(name, value) ==
    IF name = "callback_data"
    THEN IF IsNone(value) THEN PyNone ELSE PyTuple(<< value[2][1], value[2][2] >>)
    ELSE IF IsNone(value) THEN EmptyDict ELSE value

\* what get_conversations(handler) returns on a store whose conversations
\* collection is value
GetConversationsResult(value, name) ==
    DictGet(IF IsNone(value) THEN EmptyDict ELSE value, PyStr(name), EmptyDict)

\* the five reads and the constructor raised nothing
RebuildSucceeded == ~Raised(ret)

\* each get_* of the new store returns what the old store's returns
RebuiltEqual ==
    /\ \A name \in {"user_data", "chat_data", "bot_data", "callback_data"} :
          PyEq(GetResult(name, FieldOf(ret[2], name)),
               GetResult(name, Collection(name)))
    /\ \A h \in Names :
          PyEq(GetConversationsResult(FieldOf(ret[2], "conversations"), h),
               GetConversationsResult(_conversations, h))

\* C31: for every store state reached by construction followed by update_*
\* calls with JSON-representable data (integer user and chat ids, string or
\* integer inner keys, conversation keys that are tuples of integers),
\* building a new store from the five strings user_data_json,
\* chat_data_json, bot_data_json, conversations_json and callback_data_json
\* of the old store succeeds, and each get_* of the new store returns a
\* collection equal to the old store's.
SnapshotRoundTrips ==
    op[1] = "rebuild" => (RebuildSucceeded /\ RebuiltEqual)

----------------------------------------------------------------------------
(* Construction from one payload, well-formed or not, then reads *)

ConstructFrom ==
    \/ \E t \in EntityPayloads : Construct(t, "", "", "", "")
    \/ \E t \in EntityPayloads : Construct("", t, "", "", "")
    \/ \E t \in BotPayloads : Construct("", "", t, "", "")
    \/ \E t \in ConversationsPayloads : Construct("", "", "", t, "")
    \/ \E t \in CallbackPayloads : Construct("", "", "", "", t)

NextPayload ==
    \/ ConstructFrom
    \/ Reads
    \/ Gets

SpecPayload == Init /\ [][NextPayload]_vars

\* the key a JSON object key becomes in a per-entity map
AsEntityKey(k) == IF IntOfStr(k[2]).exc = "" THEN IntOfStr(k[2]).v ELSE k
\* the key a JSON object key becomes at the top level
AsId(k) == IntOfStr(k[2]).v

\* the last member of a JSON object whose key becomes c under Conv
LastMember(items, c, Conv(_)) ==
    CHOOSE i \in 1..Len(items) :
        /\ Conv(items[i][1]) = c
        /\ \A j \in (i + 1)..Len(items) : Conv(items[j][1]) # c

KeySet(d) == { d[2][i][1] : i \in 1..Len(d[2]) }

\* a per-entity map holds the members of the JSON object, each under its
\* converted key, with the values as they were parsed
EntityFrom(object, entity) ==
    /\ IsDict(entity)
    /\ KeySet(entity) = { AsEntityKey(k) : k \in KeySet(object) }
    /\ \A c \in KeySet(entity) :
          DictGet(entity, c, PyNone) = object[2][LastMember(object[2], c, AsEntityKey)][2]

\* a live user/chat map holds the members of the JSON document, each under
\* the integer its key parses to
EntitiesFrom(document, live) ==
    /\ IsDict(live)
    /\ KeySet(live) = { AsId(k) : k \in KeySet(document) }
    /\ \A n \in KeySet(live) :
          /\ Tag(n) = "int"
          /\ EntityFrom(document[2][LastMember(document[2], n, AsId)][2],
                        DictGet(live, n, PyNone))

\* C7: a store constructed from a user_data_json or chat_data_json object
\* has a live map whose top-level keys are the integers its JSON keys parse
\* to, and whose per-entity maps hold every key as an integer when it parses
\* as a base-10 integer and as the original string otherwise, the values
\* unchanged; get_user_data and get_chat_data return that map.
EntityKeysCoerced ==
    /\ (op[1] = "__init__" /\ phase = "live" /\ op[2][2] # "") =>
           EntitiesFrom(JsonLoads(op[2][2]).v, _user_data)
    /\ (op[1] = "__init__" /\ phase = "live" /\ op[3][2] # "") =>
           EntitiesFrom(JsonLoads(op[3][2]).v, _chat_data)
    /\ op[1] = "get_user_data" => ret = _user_data
    /\ op[1] = "get_chat_data" => ret = _chat_data

\* get_user_data on a store built from user data with keys that parse as
\* integers and keys that do not: integer id 1 holds "a" and the integers
\* 2, 4, 10 and -7
EntityKeysWereCoerced ==
    /\ op[1] = "get_user_data"
    /\ IsDict(ret)
    /\ DictHas(ret, PyInt(1))
    /\ KeySet(DictGet(ret, PyInt(1), EmptyDict)) =
           { PyStr("a"), PyInt(2), PyInt(4), PyInt(10), PyInt(-7), PyStr("_1") }
    /\ DictGet(DictGet(ret, PyInt(1), EmptyDict), PyInt(10), PyNone) = PyInt(6)

\* __init__ raised the TypeError that names the payload and returned no store
FailedNaming(payload) ==
    /\ phase = "failed"
    /\ Raised(ret) /\ ret[2] = "TypeError" /\ Contains(ret[3], payload)

\* a user_data_json / chat_data_json text that is not JSON, or not a map of
\* integer strings to maps
EntityMalformed(text) ==
    \/ JsonLoads(text).exc # ""
    \/ ~IsDict(JsonLoads(text).v)
    \/ \E i \in 1..Len(JsonLoads(text).v[2]) :
          \/ IntOfStr(JsonLoads(text).v[2][i][1][2]).exc # ""
          \/ ~IsDict(JsonLoads(text).v[2][i][2])

BotMalformed(text) == JsonLoads(text).exc # "" \/ ~IsDict(JsonLoads(text).v)

\* an inner key that is not the JSON text of a sequence
NotSequenceKey(key) == JsonLoads(key[2]).exc # "" \/ Tag(JsonLoads(key[2]).v) # "list"

\* a conversations_json text that is not JSON, or whose outer or an inner
\* value is no map, or with an inner key that is no JSON-encoded sequence
ConversationsMalformed(text) ==
    \/ JsonLoads(text).exc # ""
    \/ ~IsDict(JsonLoads(text).v)
    \/ \E i \in 1..Len(JsonLoads(text).v[2]) :
          \/ ~IsDict(JsonLoads(text).v[2][i][2])
          \/ \E j \in 1..Len(JsonLoads(text).v[2][i][2][2]) :
                NotSequenceKey(JsonLoads(text).v[2][i][2][2][j][1])

\* C8: a malformed or wrongly shaped user, chat, bot or conversations
\* payload makes __init__ raise the TypeError that names the payload, and no
\* store is returned.
MalformedPayloadFailsNaming ==
    op[1] = "__init__" =>
        /\ (op[2][2] # "" /\ EntityMalformed(op[2][2])) => FailedNaming("user_data_json")
        /\ (op[3][2] # "" /\ EntityMalformed(op[3][2])) => FailedNaming("chat_data_json")
        /\ (op[4][2] # "" /\ BotMalformed(op[4][2])) => FailedNaming("bot_data_json")
        /\ (op[5][2] # "" /\ ConversationsMalformed(op[5][2]))
              => FailedNaming("conversations_json")

\* the timestamp of an entry: a number, or a string float() reads
FloatCoercible(v) == Tag(v) \in {"int", "float", "str", "bool"} /\ FloatOf(v).exc = ""

\* the schema of the callback payload: [[[id, timestamp, map], ...], map]
CallbackSchema(data) ==
    /\ Tag(data) = "list" /\ Len(data[2]) = 2
    /\ Tag(data[2][1]) = "list"
    /\ \A i \in 1..Len(data[2][1][2]) :
          /\ Tag(data[2][1][2][i]) = "list" /\ Len(data[2][1][2][i][2]) = 3
          /\ IsStr(data[2][1][2][i][2][1])
          /\ FloatCoercible(data[2][1][2][i][2][2])
          /\ IsDict(data[2][1][2][i][2][3])
    /\ IsDict(data[2][2])

\* C9: a callback_data_json text that decodes to a value that is not null
\* and not of the schema makes __init__ raise TypeError, and no store is
\* returned.
CallbackDeviationFails ==
    (op[1] = "__init__" /\ op[6][2] # "" /\ JsonLoads(op[6][2]).exc = ""
        /\ ~IsNone(JsonLoads(op[6][2]).v) /\ ~CallbackSchema(JsonLoads(op[6][2]).v))
    => (phase = "failed" /\ Raised(ret) /\ ret[2] = "TypeError")

----------------------------------------------------------------------------
(* CommandHandler.__init__ *)

UpperCase == "ABCDEFGHIJKLMNOPQRSTUVWXYZ"
LowerCase == "abcdefghijklmnopqrstuvwxyz"

\* c.lower() of one ASCII character
LowerCh(c) ==
    IF \E i \in 1..Len(UpperCase) : Ch(UpperCase, i) = c
    THEN Ch(LowerCase, CHOOSE i \in 1..Len(UpperCase) : Ch(UpperCase, i) = c)
    ELSE c

RECURSIVE lower(_)
\* s.lower() of an ASCII text
lower(s) == IF s = "" THEN "" ELSE LowerCh(Ch(s, 1)) \o lower(Sub(s, 2, Len(s)))

\* the {1,32} of the pattern
MaxCommandLength == 32

\* [\da-z_]
IsCommandChar(c) ==
    \/ IsDigit(c)
    \/ \E i \in 1..Len(LowerCase) : Ch(LowerCase, i) = c
    \/ c = "_"

RECURSIVE RunEnd(_, _)
\* the last position of the run of [\da-z_] characters that starts at i
RunEnd(s, i) == IF i <= Len(s) /\ IsCommandChar(Ch(s, i)) THEN RunEnd(s, i + 1) ELSE i - 1

\* where $ matches: at the end of the text, and before a line feed that ends it
AtDollar(s, n) == n = Len(s) \/ (n = Len(s) - 1 /\ Ch(s, Len(s)) = "\n")

\* re.match(r'^[\da-z_]{1,32}$', comm)
PatternMatches(comm) ==
    \E n \in 1..MaxCommandLength : n <= RunEnd(comm, 1) /\ AtDollar(comm, n)

\* [command.lower()] of a str, [x.lower() for x in command] of a list or tuple
LoweredCommands(cmd) ==
    IF IsStr(cmd) THEN << lower(cmd[2]) >>
    ELSE [i \in 1..Len(cmd[2]) |-> lower(cmd[2][i][2])]

\* the command strings as they are given: one str, or the elements of a list
CommandsAsGiven(cmd) ==
    IF IsStr(cmd) THEN << cmd[2] >> ELSE [i \in 1..Len(cmd[2]) |-> cmd[2][i][2]]

\* Filters (telegram.ext.filters).  A filter is
\*   <<"messages">>          Filters.update.messages
\*   <<"channel_posts">>     Filters.update.channel_posts
\*   <<"filter", r>>         a filter whose result is r for every update
\*   <<"and", f, g>>         f & g
\* and its result for an update is True, False or a mapping.
MessageKinds == { "message", "edited_message" }
ChannelPostKinds == { "channel_post", "edited_channel_post" }

\* the baseline predicate: ordinary and edited messages only
Filters_update_messages == << "messages" >>

\* f & g
And(f, g) == << "and", f, g >>

\* the result of a filter that is not composed
SimpleFilterResult(f, update) ==
    CASE f[1] = "messages" -> PyBool(update.kind \in MessageKinds)
      [] f[1] = "channel_posts" -> PyBool(update.kind \in ChannelPostKinds)
      [] OTHER -> f[2]

\* filter(update): the logical AND of the two results of a composed filter
FilterResult(f, update) ==
    IF f[1] = "and"
    THEN IF Truthy(SimpleFilterResult(f[2], update))
         THEN SimpleFilterResult(f[3], update)
         ELSE SimpleFilterResult(f[2], update)
    ELSE SimpleFilterResult(f, update)

\* the user filter alone where there is one, Filters.update.messages otherwise
UserFiltersAlone(user_filters) ==
    IF IsNone(user_filters) THEN Filters_update_messages ELSE user_filters

\* if filters: Filters.update.messages & filters, else Filters.update.messages
ComposedFilters(user_filters) ==
    IF IsNone(user_filters) THEN Filters_update_messages
    ELSE And(Filters_update_messages, user_filters)

\* CommandHandler(cmd, callback, filters): the handler with its lower-cased
\* commands and its composed filter, or ValueError for a command the pattern
\* does not match
CommandHandler(cmd, user_filters) ==
    /\ hphase = "new"
    /\ hop' = << "CommandHandler", cmd, user_filters >>
    /\ hclass' = "CommandHandler"
    /\ IF \A i \in 1..Len(LoweredCommands(cmd)) : PatternMatches(LoweredCommands(cmd)[i])
       THEN /\ hphase' = "live"
            /\ command' = LoweredCommands(cmd)
            /\ filters' = ComposedFilters(user_filters)
            /\ hret' = PyNone
       ELSE /\ hphase' = "failed"
            /\ command' = command
            /\ filters' = filters
            /\ hret' = Raise("ValueError", "Command is not a valid bot command")
    /\ UNCHANGED << phase, store, op, ret, returned, history, _prefix, _command, _commands,
                    context, nchk >>

\* the number of commands in a list given to the constructor
MaxCommands == 2

RECURSIVE Repeat(_, _)
Repeat(c, n) == IF n = 0 THEN "" ELSE c \o Repeat(c, n - 1)

\* commands the pattern takes, and texts it should not take
CommandTexts ==
    { "start", "a", "_1", "help_2", Repeat("a", MaxCommandLength),
      "START", "Ab_9", "", "a-b", "a b", "/start", "start\n", "\nstart", "start\n\n",
      Repeat("a", MaxCommandLength + 1), Repeat("a", MaxCommandLength) \o "\n",
      Repeat("A", MaxCommandLength + 1) }

RECURSIVE TextLists(_)
\* the lists of n command texts
TextLists(n) ==
    IF n = 0 THEN { << >> }
    ELSE { Append(q, PyStr(t)) : q \in TextLists(n - 1), t \in CommandTexts }

CommandArguments ==
    { PyStr(t) : t \in CommandTexts }
    \cup { PyList(q) : q \in UNION { TextLists(n) : n \in 0..MaxCommands } }
    \cup { PyTuple(q) : q \in TextLists(1) }

\* the filters argument of a handler: None, or a filter
FilterResults ==
    { PyBool(FALSE), PyBool(TRUE), EmptyDict,
      PyDict(<< << PyStr("matches"), PyList(<< PyStr("m") >>) >> >>) }

UserFilters ==
    { PyNone, << "channel_posts" >> } \cup { << "filter", r >> : r \in FilterResults }

NextCommand ==
    \E cmd \in CommandArguments, user_filters \in { PyNone, << "filter", PyBool(TRUE) >> } :
        CommandHandler(cmd, user_filters)

SpecCommand == Init /\ [][NextCommand]_vars

\* ^[a-z0-9_]{1,32}$ as the claim reads it: 1 to 32 characters, each a
\* lower-case ASCII letter, an ASCII digit or an underscore
WellFormedCommand(s) ==
    /\ Len(s) \in 1..MaxCommandLength
    /\ \A i \in 1..Len(s) : IsCommandChar(Ch(s, i))

\* C10: CommandHandler construction succeeds exactly when every command
\* string given, alone or in a list, consists of 1 to 32 characters, each a
\* lower-case ASCII letter, an ASCII digit or an underscore; otherwise it
\* raises ValueError.
ConstructsExactlyWellFormed ==
    hop[1] = "CommandHandler" =>
        /\ hphase = "live" <=>
              \A i \in 1..Len(CommandsAsGiven(hop[2])) :
                  WellFormedCommand(CommandsAsGiven(hop[2])[i])
        /\ hphase # "live" =>
              hphase = "failed" /\ Raised(hret) /\ hret[2] = "ValueError"

----------------------------------------------------------------------------
(* The caller of get_conversations and get_callback_data changes, in place,
   the map it was returned *)

\* the map of the value returned: the sub-map of get_conversations, the inner
\* map of the pair of get_callback_data
ReturnedMap == IF op[1] = "get_conversations" THEN ret ELSE ret[2][2]

\* the keys and values the caller writes
ChangeKeys == Keys \cup { PyTuple(<< PyInt(3) >>), PyStr("k"), PyStr("n") }
ChangeValues == { PyNone, PyStr("T"), PyInt(2) }

\* the maps one change makes of a map
Changes(d) ==
    { DictSet(d, k, v) : k \in ChangeKeys, v \in ChangeValues }
    \cup { DictDel(d, DictKeys(d)[i]) : i \in 1..Len(d[2]) }

\* d[k] = v and del d[k] on the map returned: the map is the caller's own
\* object unless the store returned one of its objects, which then changes too
ChangeReturnedTo(m) ==
    /\ m # ReturnedMap
    /\ op' = << "change" >> \o op
    /\ IF op[1] = "get_conversations"
       THEN /\ ret' = m
            /\ _conversations' =
                  IF << "_conversations", op[2][2] >> \in returned
                  THEN DictSet(_conversations, op[2], m) ELSE _conversations
            /\ UNCHANGED _callback_data
       ELSE /\ ret' = PyTuple(<< ret[2][1], m >>)
            /\ _callback_data' =
                  IF << "_callback_data", 1 >> \in returned
                  THEN PyTuple(<< _callback_data[2][1], m >>) ELSE _callback_data
            /\ UNCHANGED _conversations
    /\ UNCHANGED << phase, _user_data, _chat_data, _bot_data, _user_data_json,
                    _chat_data_json, _bot_data_json, _callback_data_json,
                    _conversations_json, returned, history, handler >>

ChangeReturned ==
    /\ phase = "live"
    /\ op[1] \in { "get_conversations", "get_callback_data" } /\ ~IsNone(ret)
    /\ \E m \in Changes(ReturnedMap) : ChangeReturnedTo(m)

\* stores with conversations and callback data
AliasSnapshots ==
    { << "", "", "", "{\"h\": {\"[1, 2]\": \"S\"}}", "[[[\"a\", 1, {}]], {\"k\": 1}]" >>,
      << "", "", "{\"a\": 1}", "{\"g\": {\"[]\": null, \"[-3]\": 7}, \"h\": {}}", "[[], {}]" >>,
      << "", "", "", "", "" >> }

NextAlias ==
    \/ \E p \in AliasSnapshots : Construct(p[1], p[2], p[3], p[4], p[5])
    \/ get_callback_data
    \/ \E name \in Names : get_conversations(name)
    \/ ChangeReturned
    \/ Reads

SpecAlias == Init /\ [][NextAlias]_vars

\* C19: what get_conversations(name) and get_callback_data() return are
\* copies: adding, removing or replacing entries of the conversation sub-map
\* or of the inner callback-data map returned changes neither _conversations
\* nor _callback_data nor any *_json value, and every get_conversations(name)
\* and get_callback_data(), a later one included, returns the stored content.
ReturnedMapsAreCopies ==
    [][/\ op'[1] = "change" => UNCHANGED store
       /\ op'[1] = "get_conversations" =>
             ret' = DictGet(_conversations', op'[2], EmptyDict)
       /\ (op'[1] = "get_callback_data" /\ ~IsNone(_callback_data')) =>
             ret' = _callback_data']_vars

\* the caller changed the sub-map it was returned, and the store holds another
ReturnedMapChanged ==
    /\ op[1] = "change" /\ op[2] = "get_conversations"
    /\ Truthy(DictGet(_conversations, op[3], EmptyDict))
    /\ ret # DictGet(_conversations, op[3], EmptyDict)

----------------------------------------------------------------------------
(* The dispatcher: it obtains a collection with get_user_data, get_chat_data
   or get_bot_data, its handlers change the collection in place, and it
   passes the changed object to update_user_data, update_chat_data or
   update_bot_data *)

LiveGetters == { "get_user_data", "get_chat_data", "get_bot_data" }

\* the number of changes made in place on one store
MaxChanges == 1

\* the keys and values a handler writes into a data map
HandlerKeys == { PyStr("a"), PyStr("n") }
HandlerValues == { PyInt(2), PyStr("T") }

\* the maps one change, d[k] = v or del d[k], makes of a data map
HandlerChanges(d) ==
    ({ DictSet(d, k, v) : k \in HandlerKeys, v \in HandlerValues }
         \cup { DictDel(d, DictKeys(d)[i]) : i \in 1..Len(d[2]) }) \ { d }

\* the collection returned becomes m; it is the caller's own object unless
\* the getter returned the store's object, which then changes too
ChangeLiveTo(target, m) ==
    /\ nchg' = nchg + 1
    /\ ret' = m
    /\ op' = << "change" >> \o op \o target
    /\ _user_data' = IF << "_user_data" >> \in returned THEN m ELSE _user_data
    /\ _chat_data' = IF << "_chat_data" >> \in returned THEN m ELSE _chat_data
    /\ _bot_data' = IF << "_bot_data" >> \in returned THEN m ELSE _bot_data
    /\ UNCHANGED << phase, _callback_data, _conversations, _user_data_json,
                    _chat_data_json, _bot_data_json, _callback_data_json,
                    _conversations_json, returned, nupd, lastupd, readsince,
                    repeated, wrote, frame, seen, handler >>

\* bot_data[k] = v, user_data[id][k] = v, chat_data[id][k] = v and the del
\* statements; user_data[id] of an id that is not there makes an empty map
ChangeLive ==
    /\ phase = "live"
    /\ nchg < MaxChanges
    /\ op[1] \in LiveGetters
    /\ IF op[1] = "get_bot_data"
       THEN \E m \in HandlerChanges(ret) : ChangeLiveTo(<< >>, m)
       ELSE \E id \in IF op[1] = "get_user_data" THEN UserIds ELSE ChatIds :
               \E d \in HandlerChanges(DictGet(ret, PyInt(id), EmptyDict)) :
                   \E m \in { DictSet(ret, PyInt(id), d) } :
                       ChangeLiveTo(<< PyInt(id) >>, m)

\* update_bot_data(bot_data), update_user_data(id, user_data[id]) and
\* update_chat_data(id, chat_data[id]) with the object just changed
UpdateChanged ==
    /\ op[1] = "change"
    /\ \E data \in { IF op[2] = "get_bot_data" THEN ret ELSE DictGet(ret, op[3], PyNone) } :
          \/ op[2] = "get_bot_data" /\ update_bot_data(data)
          \/ op[2] = "get_user_data" /\ update_user_data(op[3][2], data)
          \/ op[2] = "get_chat_data" /\ update_chat_data(op[3][2], data)

\* stores built from user, chat and bot payloads that are not empty
DispatchSnapshots ==
    { << "{\"1\": {\"a\": 1}}", "{\"1\": {}}", "{\"a\": 1}", "", "" >>,
      << "{\"2\": {\"7\": 1}}", "{\"1\": {\"a\": 1}}", "{}", "", "" >> }

NextDispatch ==
    \/ \E p \in DispatchSnapshots : Construct(p[1], p[2], p[3], p[4], p[5])
    \/ get_user_data
    \/ get_chat_data
    \/ get_bot_data
    \/ ChangeLive
    \/ UpdateChanged
    \/ Reads

SpecDispatch == Init /\ [][NextDispatch]_vars

\* the text a *_json read returned decodes to a map
EncodesMap(text, decoded) == IsStr(text) /\ decoded.exc = "" /\ IsDict(decoded.v)

\* C22: on a store built from a bot_data_json (user_data_json,
\* chat_data_json) that is not empty, after get_bot_data() (get_user_data(),
\* get_chat_data()), a change of the collection in place and update_bot_data
\* with that collection (update_user_data, update_chat_data with the changed
\* map of the id), a read of bot_data_json (user_data_json, chat_data_json)
\* returns a string that encodes the changed content.
DispatcherChangeIsEncoded ==
    [][/\ (op[1] = "update_bot_data" /\ op'[1] = "bot_data_json") =>
             /\ EncodesMap(ret', BotDataPayload(ret'[2]))
             /\ PyEq(BotDataPayload(ret'[2]).v, op[2])
       /\ (op[1] = "update_user_data" /\ op'[1] = "user_data_json") =>
             /\ EncodesMap(ret', UserDataPayload(ret'[2]))
             /\ PyEq(DictGet(UserDataPayload(ret'[2]).v, op[2], PyNone), op[3])
       /\ (op[1] = "update_chat_data" /\ op'[1] = "chat_data_json") =>
             /\ EncodesMap(ret', ChatDataPayload(ret'[2]))
             /\ PyEq(DictGet(ChatDataPayload(ret'[2]).v, op[2], PyNone), op[3])]_vars

----------------------------------------------------------------------------
(* check_update *)

\* An update is a record: isUpdate (isinstance(update, Update)), kind (which
\* message of the update is its effective message, "none" for an update that
\* has none), and the fields of that message: text (None or a str), entities
\* (a list of records type, offset, length) and bot (None or <<"Bot", username>>).
BOT_COMMAND == "bot_command"

\* the whitespace str.split() separates on
IsSpace(c) == c \in { " ", "\t", "\n", "\r", "\f" }

RECURSIVE SkipSpace(_, _)
\* the first position from i on that holds no whitespace
SkipSpace(s, i) == IF i <= Len(s) /\ IsSpace(Ch(s, i)) THEN SkipSpace(s, i + 1) ELSE i

RECURSIVE TokenEnd(_, _)
\* the last position of the run without whitespace that starts at i
TokenEnd(s, i) == IF i <= Len(s) /\ ~IsSpace(Ch(s, i)) THEN TokenEnd(s, i + 1) ELSE i - 1

RECURSIVE SplitFrom(_, _)
SplitFrom(s, i) ==
    IF SkipSpace(s, i) > Len(s) THEN << >>
    ELSE << Sub(s, SkipSpace(s, i), TokenEnd(s, SkipSpace(s, i))) >>
         \o SplitFrom(s, TokenEnd(s, SkipSpace(s, i)) + 1)

\* s.split()
split(s) == SplitFrom(s, 1)

RECURSIVE Find(_, _, _)
\* the first position from i on that holds sep, Len(s) + 1 when there is none
Find(s, sep, i) == IF i > Len(s) \/ Ch(s, i) = sep THEN i ELSE Find(s, sep, i + 1)

RECURSIVE SplitOn(_, _)
\* s.split(sep) for a separator of one character
SplitOn(s, sep) ==
    IF Find(s, sep, 1) > Len(s) THEN << s >>
    ELSE << Sub(s, 1, Find(s, sep, 1) - 1) >>
         \o SplitOn(Sub(s, Find(s, sep, 1) + 1, Len(s)), sep)

\* q[1:]
Rest(q) == IF q = << >> THEN << >> ELSE Tail(q)

\* x in q, for a list of str
InList(x, q) == \E i \in 1..Len(q) : q[i] = x

\* a list of str as a Python value
StrList(q) == PyList([i \in 1..Len(q) |-> PyStr(q[i])])

\* isinstance(update, Update) and update.effective_message
HasMessage(update) == update.isUpdate /\ update.kind # "none"

\* Defect: the condition without the test of the offset
HasCommandEntityAtAnyOffset(message) ==
    /\ Len(message.entities) > 0
    /\ message.entities[1].type = BOT_COMMAND
    /\ Truthy(message.text)
    /\ Truthy(message.bot)

\* the condition on the first entity, the text and the bot
HasCommandEntity(message) ==
    /\ Len(message.entities) > 0
    /\ message.entities[1].type = BOT_COMMAND
    /\ message.entities[1].offset = 0
    /\ Truthy(message.text)
    /\ Truthy(message.bot)

\* message.text[0 : message.entities[0].length]: the command with its slash
RawCommandWithSlash(message) == Sub(message.text[2], 1, message.entities[1].length)

\* message.text[1 : message.entities[0].length]
RawCommand(message) == Sub(message.text[2], 2, message.entities[1].length)

\* command.split('@') with message.bot.username appended
CommandParts(message) == Append(SplitOn(RawCommand(message), "@"), message.bot[2])

\* command_parts[0].lower() in self.command, whatever the username
CommandAcceptedByName(message) == InList(lower(CommandParts(message)[1]), command)

\* command_parts[0].lower() in self.command
\* and command_parts[1].lower() == message.bot.username.lower()
CommandAccepted(message) ==
    /\ InList(lower(CommandParts(message)[1]), command)
    /\ lower(CommandParts(message)[2]) = lower(message.bot[2])

\* args, True for a truthy filter result, False for a falsy one
FilteredAsBool(args, filter_result) ==
    IF Truthy(filter_result) THEN PyTuple(<< StrList(args), PyBool(TRUE) >>)
    ELSE PyBool(FALSE)

\* args, filter_result for a truthy filter result, False for a falsy one
Filtered(args, filter_result) ==
    IF Truthy(filter_result) THEN PyTuple(<< StrList(args), filter_result >>)
    ELSE PyBool(FALSE)

\* CommandHandler.check_update(update)
CommandHandler_check_update(update) ==
    IF HasMessage(update) /\ HasCommandEntity(update)
    THEN IF ~CommandAccepted(update) THEN PyNone
         ELSE Filtered(Rest(split(update.text[2])), FilterResult(filters, update))
    ELSE PyNone

\* text_list[0].lower() in self._commands
TriggerAccepted(text_list) == InList(lower(text_list[1]), _commands)

\* PrefixHandler.check_update(update)
PrefixHandler_check_update(update) ==
    IF HasMessage(update) /\ Truthy(update.text)
    THEN IF split(update.text[2]) = << >>
         THEN Raise("IndexError", "list index out of range")
         ELSE IF ~TriggerAccepted(split(update.text[2])) THEN PyNone
         ELSE Filtered(Rest(split(update.text[2])), FilterResult(filters, update))
    ELSE PyNone

\* the number of updates a handler is given to check
MaxChecks == 1

\* handler.check_update(update), of the handler's class
check_update(update) ==
    /\ hphase = "live"
    /\ nchk < MaxChecks
    /\ nchk' = nchk + 1
    /\ hop' = << "check_update", update >>
    /\ hret' = IF hclass = "PrefixHandler" THEN PrefixHandler_check_update(update)
               ELSE CommandHandler_check_update(update)
    /\ UNCHANGED << phase, store, op, ret, returned, history, hphase, hclass, command, filters,
                    _prefix, _command, _commands, context >>

----------------------------------------------------------------------------
(* PrefixHandler *)

\* what a setter of PrefixHandler stores: [value.lower()] for a str, the list
\* as it is given otherwise
Stored(value) ==
    IF IsStr(value) THEN << lower(value[2]) >>
    ELSE [i \in 1..Len(value[2]) |-> value[2][i][2]]

\* [x.lower() + y.lower() for x in self.prefix for y in self.command]
_build_commands(prefix, cmd) ==
    [k \in 1..(Len(prefix) * Len(cmd)) |->
        lower(prefix[((k - 1) \div Len(cmd)) + 1]) \o lower(cmd[((k - 1) % Len(cmd)) + 1])]

\* the command of the PrefixHandler given to CommandHandler.__init__
SuperCommandGiven(cmd) == cmd

\* the command PrefixHandler.__init__ gives to CommandHandler.__init__, which
\* lower-cases it and matches it against the pattern
SuperCommand(cmd) == PyStr("nocommand")

\* PrefixHandler(prefix, cmd, callback, filters).  The command attribute of a
\* PrefixHandler is its property, so CommandHandler.__init__ stores
\* ['nocommand'] in _command, and the two assignments that follow replace it.
PrefixHandler(prefix, cmd, user_filters) ==
    /\ hphase = "new"
    /\ hop' = << "PrefixHandler", prefix, cmd, user_filters >>
    /\ hclass' = "PrefixHandler"
    /\ IF \A i \in 1..Len(LoweredCommands(SuperCommand(cmd))) :
              PatternMatches(LoweredCommands(SuperCommand(cmd))[i])
       THEN /\ hphase' = "live"
            /\ filters' = ComposedFilters(user_filters)
            /\ _prefix' = Stored(prefix)
            /\ _command' = Stored(cmd)
            /\ _commands' = _build_commands(Stored(prefix), Stored(cmd))
            /\ hret' = PyNone
       ELSE /\ hphase' = "failed"
            /\ UNCHANGED << filters, _prefix, _command, _commands >>
            /\ hret' = Raise("ValueError", "Command is not a valid bot command")
    /\ UNCHANGED << phase, store, op, ret, returned, history, command, context, nchk >>

\* handler.prefix = prefix, were the triggers not built again
prefix_setter_stale(prefix) ==
    /\ hphase = "live" /\ hclass = "PrefixHandler"
    /\ hop' = << "prefix", prefix >>
    /\ _prefix' = Stored(prefix)
    /\ hret' = PyNone
    /\ UNCHANGED << phase, store, op, ret, returned, history, hphase, hclass, command, filters,
                    _command, _commands, context, nchk >>

\* handler.prefix = prefix
prefix_setter(prefix) ==
    /\ hphase = "live" /\ hclass = "PrefixHandler"
    /\ hop' = << "prefix", prefix >>
    /\ _prefix' = Stored(prefix)
    /\ _commands' = _build_commands(Stored(prefix), _command)
    /\ hret' = PyNone
    /\ UNCHANGED << phase, store, op, ret, returned, history, hphase, hclass, command, filters,
                    _command, context, nchk >>

\* handler.command = cmd
command_setter(cmd) ==
    /\ hphase = "live" /\ hclass = "PrefixHandler"
    /\ hop' = << "command", cmd >>
    /\ _command' = Stored(cmd)
    /\ _commands' = _build_commands(_prefix, Stored(cmd))
    /\ hret' = PyNone
    /\ UNCHANGED << phase, store, op, ret, returned, history, hphase, hclass, command, filters,
                    _prefix, context, nchk >>

----------------------------------------------------------------------------
(* the handlers and the updates of the matching specification *)

StrArgument(q) == PyList([i \in 1..Len(q) |-> PyStr(q[i])])

\* commands of a CommandHandler
MatchCommands == { PyStr("start"), PyStr("START"), StrArgument(<< "Start", "help" >>) }

\* prefixes and commands a PrefixHandler is constructed with
PrefixArguments == { PyStr("!"), StrArgument(<< "!", "#" >>) }
PrefixCommands == { PyStr("test"), StrArgument(<< "test", "help" >>), PyStr("a b") }

\* prefixes and commands assigned to a PrefixHandler
AssignedPrefixes == PrefixArguments \cup { StrArgument(<< "X" >>) }
AssignedCommands == PrefixCommands \cup { StrArgument(<< "Help" >>) }

Entity(type, offset, length) == [type |-> type, offset |-> offset, length |-> length]
Message(text, entities, bot) == [text |-> text, entities |-> entities, bot |-> bot]

MyBot == << "Bot", "mybot" >>

\* texts that begin with a command, each with the entity that covers its
\* first token, for a bot whose username is written in either case
CommandMessageTexts ==
    { "/start", "/start@mybot extra args", "/start@otherbot", "/START@MyBot  a\tb",
      "/help x", "/stop", "/start@", "/start@mybot@x" }
CommandMessages ==
    { Message(PyStr(t), << Entity(BOT_COMMAND, 0, Len(split(t)[1])) >>, b) :
        t \in CommandMessageTexts, b \in { MyBot, << "Bot", "MyBot" >> } }

\* one text with other entities
EntityLists ==
    { << >>,
      << Entity(BOT_COMMAND, 0, 1) >>, << Entity(BOT_COMMAND, 0, 5) >>,
      << Entity(BOT_COMMAND, 0, 6) >>, << Entity(BOT_COMMAND, 0, 7) >>,
      << Entity(BOT_COMMAND, 0, 15) >>,
      << Entity(BOT_COMMAND, 1, 6) >>, << Entity("mention", 0, 6) >>,
      << Entity(BOT_COMMAND, 0, 6), Entity("mention", 7, 5) >>,
      << Entity("mention", 0, 3), Entity(BOT_COMMAND, 4, 6) >> }
EntityMessages ==
    { Message(PyStr("/start@mybot extra args"), e, MyBot) : e \in EntityLists }

\* a text whose second entity is a bot command that names a command
LaterCommandMessages ==
    { Message(PyStr("hi /start"),
              << Entity("mention", 0, 2), Entity(BOT_COMMAND, 3, 6) >>, MyBot) }

\* messages that lack a text, a token, an entity or a bot
LackingMessages ==
    { Message(t, e, b) :
        t \in { PyNone, PyStr(""), PyStr(" "), PyStr("\n\t") },
        e \in { << >>, << Entity(BOT_COMMAND, 0, 6) >> },
        b \in { PyNone, MyBot } }
    \cup { Message(PyStr("/start"), << Entity(BOT_COMMAND, 0, 6) >>, PyNone) }

\* texts that begin with a prefix
PrefixTexts == { "!test a b", "#HELP", "!tes", "x !test", "Xhelp\nme", "test", " !Test  c " }
PrefixMessages ==
    { Message(PyStr(t), << >>, PyNone) : t \in PrefixTexts }
    \cup { Message(PyStr("!test a b"), << Entity("mention", 6, 1) >>, MyBot) }

\* messages for the updates that are not ordinary messages
OtherMessages ==
    { Message(PyStr("/start@mybot extra args"), << Entity(BOT_COMMAND, 0, 12) >>, MyBot),
      Message(PyStr("!test a b"), << >>, PyNone),
      Message(PyStr(" "), << >>, PyNone),
      Message(PyNone, << >>, MyBot) }

UpdateOf(kind, m) ==
    [isUpdate |-> TRUE, kind |-> kind, text |-> m.text, entities |-> m.entities,
     bot |-> m.bot]

HandlerUpdates ==
    { UpdateOf("message", m) :
        m \in CommandMessages \cup EntityMessages \cup LaterCommandMessages
                \cup LackingMessages \cup PrefixMessages }
    \cup { UpdateOf(k, m) : k \in { "edited_message" } \cup ChannelPostKinds, m \in OtherMessages }
    \cup { [isUpdate |-> TRUE, kind |-> "none", text |-> PyNone, entities |-> << >>,
            bot |-> PyNone],
           [isUpdate |-> FALSE, kind |-> "none", text |-> PyNone, entities |-> << >>,
            bot |-> PyNone] }

NextMatch ==
    \/ \E cmd \in MatchCommands, user_filters \in UserFilters :
          CommandHandler(cmd, user_filters)
    \/ \E prefix \in PrefixArguments, cmd \in PrefixCommands, user_filters \in UserFilters :
          PrefixHandler(prefix, cmd, user_filters)
    \/ \E prefix \in AssignedPrefixes : prefix_setter(prefix)
    \/ \E cmd \in AssignedCommands : command_setter(cmd)
    \/ \E update \in HandlerUpdates : check_update(update)

SpecMatch == Init /\ [][NextMatch]_vars

----------------------------------------------------------------------------
(* claims about CommandHandler.check_update *)

\* the update a check_update call was given, and the handler it was made on
Checked(class) == hop[1] = "check_update" /\ hclass = class

\* the text the first entity of a message covers
Covered(message) == Sub(message.text[2], 1, message.entities[1].length)

\* covered is '/' + c or '/' + c + '@' + u, with lower(c) one of the commands
\* and lower(u) the lower-cased username
NamesCommandOf(covered, commands, username) ==
    /\ Ch(covered, 1) = "/"
    /\ \E k \in 2..Len(covered) :
          /\ InList(lower(Sub(covered, 2, k)), commands)
          /\ \/ k = Len(covered)
             \/ /\ Ch(covered, k + 1) = "@"
                /\ lower(Sub(covered, k + 2, Len(covered))) = lower(username)

\* an ordinary or edited message of a bot, with a non-empty text whose first
\* entity is a bot command at offset 0 that names a command of the handler
IsCommandFor(update) ==
    /\ update.isUpdate /\ update.kind \in MessageKinds
    /\ ~IsNone(update.bot)
    /\ IsStr(update.text) /\ update.text[2] # ""
    /\ Len(update.entities) > 0
    /\ update.entities[1].type = BOT_COMMAND /\ update.entities[1].offset = 0
    /\ update.entities[1].length <= Len(update.text[2])
    /\ NamesCommandOf(Covered(update), command, update.bot[2])

\* C11: for an ordinary or edited message of a bot with username U, whose
\* text is non-empty and whose first entity is a bot command at offset 0
\* covering '/' + c or '/' + c + '@' + u with lower(c) a command of the handler
\* and lower(u) = lower(U), a CommandHandler with no user filter returns
\* (args, True), args being the tokens of the text after the first one;
\* '/start@mybot extra args' gives (['extra', 'args'], True).
CommandAcceptedWithArgs ==
    (Checked("CommandHandler") /\ filters = Filters_update_messages /\ IsCommandFor(hop[2])) =>
        /\ hret = PyTuple(<< StrList(Rest(split(hop[2].text[2]))), PyBool(TRUE) >>)
        /\ hop[2].text[2] = "/start@mybot extra args" =>
              hret = PyTuple(<< PyList(<< PyStr("extra"), PyStr("args") >>), PyBool(TRUE) >>)

\* a command with the username of the bot in another case, and arguments
CommandWithUsernameAccepted ==
    /\ Checked("CommandHandler") /\ filters = Filters_update_messages /\ IsCommandFor(hop[2])
    /\ hop[2].text[2] = "/START@MyBot  a\tb" /\ hop[2].bot[2] = "mybot"
    /\ hret = PyTuple(<< PyList(<< PyStr("a"), PyStr("b") >>), PyBool(TRUE) >>)

\* the place of the first '@' of a text, Len(text) + 1 when it has none
FirstAt(text) ==
    IF \E k \in 1..Len(text) : Ch(text, k) = "@"
    THEN CHOOSE k \in 1..Len(text) :
            Ch(text, k) = "@" /\ \A j \in 1..(k - 1) : Ch(text, j) # "@"
    ELSE Len(text) + 1

\* the command name of a message: what its first entity covers, from after
\* the slash up to the '@'
CommandName(message) == Sub(Covered(message), 2, FirstAt(Covered(message)) - 1)

\* the message gives a username after an '@': what follows the '@', up to a
\* second '@'
HasSuffix(message) == FirstAt(Covered(message)) <= Len(Covered(message))
AfterAt(message) ==
    Sub(Covered(message), FirstAt(Covered(message)) + 1, Len(Covered(message)))
Suffix(message) == Sub(AfterAt(message), 1, FirstAt(AfterAt(message)) - 1)

\* a message with a text and a bot whose first entity is a bot command at offset 0
HasCommandShape(update) ==
    /\ update.isUpdate /\ update.kind # "none"
    /\ ~IsNone(update.bot)
    /\ IsStr(update.text) /\ update.text[2] # ""
    /\ Len(update.entities) > 0
    /\ update.entities[1].type = BOT_COMMAND /\ update.entities[1].offset = 0

NameMatches(update) == InList(lower(CommandName(update)), command)
UsernameMatches(update) ==
    HasSuffix(update) => lower(Suffix(update)) = lower(update.bot[2])

\* C12: CommandHandler.check_update returns None, never False, whenever the
\* command name is not a command of the handler or the '@' suffix differs
\* case-insensitively from the username of the bot, whatever the filter would
\* return; it returns False only when the name and the username matched and
\* the filter result was falsy.
MismatchIsNoneNotFalse ==
    Checked("CommandHandler") =>
        /\ (HasCommandShape(hop[2]) /\ ~(NameMatches(hop[2]) /\ UsernameMatches(hop[2])))
              => hret = PyNone
        /\ hret = PyBool(FALSE) =>
              /\ HasCommandShape(hop[2])
              /\ NameMatches(hop[2]) /\ UsernameMatches(hop[2])
              /\ ~Truthy(FilterResult(filters, hop[2]))

\* the username of another bot, under a filter that rejects every update
OtherUsernameUnderRejectingFilter ==
    /\ Checked("CommandHandler") /\ HasCommandShape(hop[2])
    /\ NameMatches(hop[2]) /\ ~UsernameMatches(hop[2])
    /\ filters = And(Filters_update_messages, << "filter", PyBool(FALSE) >>)
    /\ hret = PyNone

\* the text of a message after its first entity
AfterEntity(message) ==
    Sub(message.text[2], message.entities[1].length + 1, Len(message.text[2]))

\* C23: in CommandHandler.check_update the raw command is the text from
\* position 1 up to the length of the first entity, and the arguments are the
\* whitespace-separated tokens of the text that remains after that entity,
\* for every text and every entity length, an entity that ends before the
\* first whitespace of the text included.
ArgsAreTextAfterEntity ==
    (Checked("CommandHandler") /\ Tag(hret) = "tuple") =>
        /\ InList(lower(SplitOn(Sub(hop[2].text[2], 2, hop[2].entities[1].length),
                                "@")[1]), command)
        /\ hret[2][1] = StrList(split(AfterEntity(hop[2])))

\* the first entity of the message is a bot command at offset 0
FirstEntityIsCommand(update) ==
    /\ Len(update.entities) > 0
    /\ update.entities[1].type = BOT_COMMAND
    /\ update.entities[1].offset = 0

\* C24: CommandHandler.check_update returns None for every update whose
\* message has a first entity that is not a bot command at offset 0, even
\* when a later entity is a bot command that names a command of the handler
\* or the text begins with '/' + a command of the handler; and it returns
\* None when the message has no entities, an empty text or no bot.
NoFirstCommandEntityIsNone ==
    (Checked("CommandHandler")
        /\ \/ ~FirstEntityIsCommand(hop[2])
           \/ ~Truthy(hop[2].text)
           \/ IsNone(hop[2].bot))
    => hret = PyNone

\* a message whose first entity is a mention and whose second one is a bot
\* command that names the handler's command was checked
LaterCommandEntityIgnored ==
    /\ Checked("CommandHandler") /\ InList("start", command)
    /\ hop[2].kind = "message" /\ hop[2].text = PyStr("hi /start")
    /\ Len(hop[2].entities) = 2
    /\ hop[2].entities[2] = Entity(BOT_COMMAND, 3, 6)
    /\ ~FirstEntityIsCommand(hop[2])
    /\ hret = PyNone

----------------------------------------------------------------------------
(* claims about both handlers *)

\* a message with a text that has a first token
HasFirstToken(update) ==
    /\ update.isUpdate /\ update.kind # "none"
    /\ IsStr(update.text) /\ split(update.text[2]) # << >>

\* the command or trigger shape of the update checked matched
ShapeMatched ==
    \/ /\ Checked("CommandHandler") /\ HasCommandShape(hop[2])
       /\ NameMatches(hop[2]) /\ UsernameMatches(hop[2])
    \/ /\ Checked("PrefixHandler") /\ HasFirstToken(hop[2])
       /\ InList(lower(split(hop[2].text[2])[1]), _commands)

\* C13: for both handlers, once the command or trigger shape has matched, a
\* truthy result r of the composed filter (True or a non-empty mapping) gives
\* (args, r), r unchanged, and a falsy one (False or an empty mapping) gives
\* False.
FilterResultDecides ==
    ShapeMatched =>
        IF Truthy(FilterResult(filters, hop[2]))
        THEN /\ Tag(hret) = "tuple" /\ Len(hret[2]) = 2
             /\ hret[2][1] = StrList(Rest(split(hop[2].text[2])))
             /\ hret[2][2] = FilterResult(filters, hop[2])
        ELSE hret = PyBool(FALSE)

\* a trigger matched under a filter whose result is a non-empty mapping
MappingPassedThrough ==
    /\ ShapeMatched /\ hclass = "PrefixHandler"
    /\ IsDict(FilterResult(filters, hop[2])) /\ Truthy(FilterResult(filters, hop[2]))
    /\ hret[2][2] = PyDict(<< << PyStr("matches"), PyList(<< PyStr("m") >>) >> >>)

----------------------------------------------------------------------------
(* claims about PrefixHandler *)

\* { lower(p) + lower(c) : p in prefix, c in command } of the current values
TriggerSet ==
    { lower(_prefix[i]) \o lower(_command[j]) :
        i \in 1..Len(_prefix), j \in 1..Len(_command) }

\* C14: after construction and after any assignments to .prefix and .command
\* the triggers of a PrefixHandler are the lower(p) + lower(c) of the current
\* prefixes and commands; check_update matches a first token exactly when it
\* is one of them, so not a trigger an assignment removed, and a trigger an
\* assignment formed.
TriggersFollowAssignments ==
    (hphase = "live" /\ hclass = "PrefixHandler") =>
        /\ { _commands[k] : k \in 1..Len(_commands) } = TriggerSet
        /\ (hop[1] = "check_update" /\ HasFirstToken(hop[2])) =>
              (hret # PyNone <=> lower(split(hop[2].text[2])[1]) \in TriggerSet)

\* every handler is constructed with the prefix '!': after the assignments
\* of ['X'] and ['Help'], '!test' is not matched
RemovedTriggerNotMatched ==
    /\ Checked("PrefixHandler")
    /\ _prefix = << "X" >> /\ _command = << "Help" >>
    /\ hop[2].text = PyStr("!test a b") /\ hret = PyNone

\* a message with a text that is not empty
HasText(update) ==
    /\ update.isUpdate /\ update.kind # "none"
    /\ IsStr(update.text) /\ update.text[2] # ""

\* the lower-cased first token of the text is one of the triggers
FirstTokenIsTrigger(update) ==
    HasFirstToken(update) /\ lower(split(update.text[2])[1]) \in TriggerSet

\* C15: PrefixHandler.check_update on a message with a non-empty text returns
\* None unless the lower-cased first token of the text is a trigger; when it
\* is one and the filter result r is truthy it returns (args, r), args being
\* the remaining tokens in order; no entity and no bot is required.
PrefixMatchesFirstToken ==
    (Checked("PrefixHandler") /\ HasText(hop[2])) =>
        /\ ~FirstTokenIsTrigger(hop[2]) => hret = PyNone
        /\ (FirstTokenIsTrigger(hop[2]) /\ Truthy(FilterResult(filters, hop[2]))) =>
              hret = PyTuple(<< StrList(Rest(split(hop[2].text[2]))),
                                FilterResult(filters, hop[2]) >>)

\* what check_update may return: None, False or an (args, filter_result) pair
IsCheckResult(r) ==
    \/ r = PyNone
    \/ r = PyBool(FALSE)
    \/ Tag(r) = "tuple" /\ Len(r[2]) = 2 /\ Tag(r[2][1]) = "list"

\* C16: check_update of CommandHandler and of PrefixHandler never raises: for
\* every update it returns None, False or an (args, filter_result) pair; a
\* missing text gives None, and so does, for a CommandHandler, a message
\* without entities or without a bot.
CheckNeverRaises ==
    hop[1] = "check_update" =>
        /\ ~Raised(hret) /\ IsCheckResult(hret)
        /\ (~hop[2].isUpdate \/ hop[2].kind = "none" \/ ~Truthy(hop[2].text)) => hret = PyNone
        /\ (hclass = "CommandHandler" /\ (hop[2].entities = << >> \/ IsNone(hop[2].bot)))
              => hret = PyNone

\* C17: for an update whose effective message is a channel post or an edited
\* channel post, check_update of either handler never returns an accepting
\* (args, filter_result) pair, whatever user filter the handler was given,
\* none included: the user filter is AND-composed with the baseline filter,
\* which accepts messages and edited messages only.
ChannelPostsNeverAccepted ==
    (hop[1] = "check_update" /\ hop[2].isUpdate /\ hop[2].kind \in ChannelPostKinds) =>
        /\ Tag(hret) # "tuple"
        /\ filters \in { Filters_update_messages } \cup
                       { And(Filters_update_messages, f) : f \in UserFilters \ { PyNone } }

\* a channel post with a command of the handler, whose user filter accepts
\* channel posts
ChannelPostCommandRejected ==
    /\ ShapeMatched /\ hop[2].kind = "channel_post"
    /\ filters = And(Filters_update_messages, << "channel_posts" >>)
    /\ hret = PyBool(FALSE)

\* every command string given matches ^[a-z0-9_]{1,32}$ once lower-cased
CommandsWellFormed(cmd) ==
    \A i \in 1..Len(CommandsAsGiven(cmd)) : WellFormedCommand(lower(CommandsAsGiven(cmd)[i]))

\* C18 as the spec states it: the command values of a PrefixHandler are
\* validated and its prefix values are not, so constructing a PrefixHandler,
\* or assigning .command, with a command that does not match
\* ^[a-z0-9_]{1,32}$ after lower-casing fails with the validation error, and
\* any prefix is accepted.
PrefixCommandsValidated ==
    /\ hop[1] = "PrefixHandler" =>
          /\ hphase = "live" <=> CommandsWellFormed(hop[3])
          /\ hphase # "live" => (Raised(hret) /\ hret[2] = "ValueError")
    /\ (hop[1] = "command" /\ ~CommandsWellFormed(hop[2])) =>
          (Raised(hret) /\ hret[2] = "ValueError")
    /\ hop[1] = "prefix" => ~Raised(hret)

\* C18, amended: neither the command values nor the prefix values of a
\* PrefixHandler are validated.  The pattern is applied only to the
\* placeholder 'nocommand' that PrefixHandler.__init__ passes on, so
\* constructing a PrefixHandler, or assigning .command or .prefix, with any
\* strings succeeds and stores them.
PrefixHandlerValidatesNothing ==
    /\ hop[1] = "PrefixHandler" =>
          /\ hphase = "live" /\ ~Raised(hret)
          /\ _prefix = Stored(hop[2]) /\ _command = Stored(hop[3])
    /\ hop[1] = "command" => (hphase = "live" /\ ~Raised(hret) /\ _command = Stored(hop[2]))
    /\ hop[1] = "prefix" => (hphase = "live" /\ ~Raised(hret) /\ _prefix = Stored(hop[2]))

\* a PrefixHandler constructed with a command the pattern does not match
UnmatchedCommandConstructed ==
    /\ hop[1] = "PrefixHandler" /\ ~CommandsWellFormed(hop[3])
    /\ hphase = "live" /\ _commands = << "!a b" >>

----------------------------------------------------------------------------
(* collect_additional_context *)

\* The context of an update is the map of its attributes.

RECURSIVE DictUpdate(_, _, _)
\* context.update(data): the entries of data from the i-th on, set one by one
DictUpdate(d, data, i) ==
    IF i > Len(data[2]) THEN d
    ELSE DictUpdate(DictSet(d, data[2][i][1], data[2][i][2]), data, i + 1)

\* Defect: context.args is set and the mapping is not merged
ContextWithArgsOnly(ctx, check_result) ==
    IF Tag(check_result) = "tuple"
    THEN DictSet(ctx, PyStr("args"), check_result[2][1])
    ELSE ctx

\* the context that collect_additional_context leaves
ContextCollected(ctx, check_result) ==
    IF Tag(check_result) = "tuple"
    THEN IF IsDict(check_result[2][2])
         THEN DictUpdate(DictSet(ctx, PyStr("args"), check_result[2][1]),
                         check_result[2][2], 1)
         ELSE DictSet(ctx, PyStr("args"), check_result[2][1])
    ELSE ctx

\* handler.collect_additional_context(context, update, dispatcher, check_result)
collect_additional_context(ctx, check_result) ==
    /\ hphase = "live"
    /\ hop' = << "collect_additional_context", ctx, check_result >>
    /\ context' = ContextCollected(ctx, check_result)
    /\ hret' = PyNone
    /\ UNCHANGED << phase, store, op, ret, returned, history, hphase, hclass, command, filters,
                    _prefix, _command, _commands, nchk >>

\* contexts: a new one, and one that was used before
Contexts ==
    { PyDict(<< << PyStr("args"), PyNone >>, << PyStr("matches"), PyNone >> >>),
      PyDict(<< << PyStr("matches"), PyList(<< PyStr("old") >>) >>,
                << PyStr("args"), PyList(<< PyStr("x") >>) >> >>) }

\* what a filter gives as the second element of a check result
CollectedFilterResults ==
    { PyBool(TRUE), PyNone, EmptyDict,
      PyDict(<< << PyStr("matches"), PyList(<< PyStr("m") >>) >> >>),
      PyDict(<< << PyStr("user"), PyInt(1) >>, << PyStr("args"), PyList(<< >>) >> >>) }

CheckResults ==
    { PyNone, PyBool(FALSE), PyBool(TRUE) }
    \cup { PyTuple(<< StrList(a), r >>) :
             a \in { << >>, << "a", "b" >> }, r \in CollectedFilterResults }

NextContext ==
    \/ \E cmd \in { PyStr("start") }, user_filters \in UserFilters :
          CommandHandler(cmd, user_filters)
    \/ \E prefix \in { PyStr("!") }, cmd \in { PyStr("test") }, user_filters \in { PyNone } :
          PrefixHandler(prefix, cmd, user_filters)
    \/ \E ctx \in Contexts, check_result \in CheckResults :
          collect_additional_context(ctx, check_result)

SpecContext == Init /\ [][NextContext]_vars

\* the attribute of a context, None for one it does not have
Attribute(ctx, name) == DictGet(ctx, PyStr(name), PyNone)
AttributeNames(ctx) == { DictKeys(ctx)[i] : i \in 1..Len(ctx[2]) }

\* C20: given a check result that is an (args, filter_result) pair,
\* collect_additional_context sets context.args to args and then, only when
\* filter_result is a mapping, merges the entries of the mapping into the
\* context; given None, False or True it leaves the context as it was.
ContextCollectsArgsAndMapping ==
    hop[1] = "collect_additional_context" =>
        IF Tag(hop[3]) = "tuple"
        THEN IF IsDict(hop[3][2][2])
             THEN /\ \A i \in 1..Len(hop[3][2][2][2]) :
                        DictGet(context, hop[3][2][2][2][i][1], PyNone) = hop[3][2][2][2][i][2]
                  /\ ~DictHas(hop[3][2][2], PyStr("args")) =>
                        Attribute(context, "args") = hop[3][2][1]
                  /\ \A k \in AttributeNames(hop[2]) \ (AttributeNames(hop[3][2][2]) \cup { PyStr("args") }) :
                        DictGet(context, k, PyNone) = DictGet(hop[2], k, PyNone)
                  /\ AttributeNames(context) =
                        AttributeNames(hop[2]) \cup AttributeNames(hop[3][2][2]) \cup { PyStr("args") }
             ELSE context = DictSet(hop[2], PyStr("args"), hop[3][2][1])
        ELSE context = hop[2]

\* a used context given a pair with a mapping: the arguments and the entry of
\* the mapping replace what it held
MappingMergedIntoContext ==
    /\ hop[1] = "collect_additional_context"
    /\ Attribute(hop[2], "matches") = PyList(<< PyStr("old") >>)
    /\ Attribute(context, "matches") = PyList(<< PyStr("m") >>)
    /\ Attribute(context, "args") = PyList(<< PyStr("a"), PyStr("b") >>)

============================================================================
